---- MODULE Spec2Model ----
(***************************************************************************)
(* Patchwork (Shape.h): the leaf shapes Circle, Polygon, Line, Ellipse,    *)
(* the composite Image, its text serialization and its mutex discipline.   *)
(*                                                                         *)
(* Numbers.  A float is modelled by the integer number of hundredths it    *)
(* holds (1.50 is 150); all floats of the model have at most two decimals, *)
(* which is what to_string(float) prints.  An int is an integer.           *)
(* Text.  A std::string is a sequence of one-character strings.            *)
(* Memory.  A Shape* is a positive integer; heap maps the allocated        *)
(* pointers to the objects they point to.                                  *)
(***************************************************************************)
EXTENDS Integers, Sequences, FiniteSets, TLC

VARIABLES
    heap,         \* allocated Shape objects: pointer -> shape record
    released,     \* pointers on which delete has been called
    components_,  \* Image::components_ : sequence of Shape*
    annotation,   \* Image::annotation
    origin_,      \* Image::origin_
    alive,        \* the Image object exists (constructed, not destroyed)
    mutex,        \* Image::mutex : the thread that owns it, or NoThread
    serial,       \* the caller's std::string handed to serialize()
    source,       \* what the caller serialized into serial (shapes, annotation, origin)
    last,         \* the call that has just returned: operation, arguments, outcome
    pc,           \* per thread: position inside the call it is running
    loc,          \* per thread: the locals of the call it is running
    touch,        \* per thread: the Image fields its latest step read or wrote
    log,          \* transforms in the order in which they took the mutex
    calls,        \* calls the threads have started
    shape,        \* SpecShape: the leaf shape under test
    bb            \* SpecShape: the box returned by the latest bounding_box()

vars == <<heap, released, components_, annotation, origin_, alive, mutex,
          serial, source, last, pc, loc, touch, log, calls, shape, bb>>

-----------------------------------------------------------------------------
(* Bounds of the model *)

MaxComponents == 2   \* most components an Image is given through add_component
MaxCalls == 3        \* transform and observer calls made by all threads together
MaxThreadCalls == 2  \* calls made by all threads together, over all operations
MaxOps == 4          \* calls made on an Image in one sequential behaviour

-----------------------------------------------------------------------------
(* Characters and numbers as text *)

Scale == 100

Digits == <<"0", "1", "2", "3", "4", "5", "6", "7", "8", "9">>

IsDigit(c) == \E d \in 1..10 : Digits[d] = c

DigitVal(c) == (CHOOSE d \in 1..10 : Digits[d] = c) - 1

IsSpace(c) == c \in {" ", "\n", "\t"}

Abs(n) == IF n < 0 THEN 0 - n ELSE n

RECURSIVE NatDigits(_)
NatDigits(n) ==
    IF n < 10 THEN <<Digits[n + 1]>>
    ELSE NatDigits(n \div 10) \o <<Digits[(n % 10) + 1]>>

\* to_string(int): stream << i
ToStringInt(i) ==
    IF i < 0 THEN <<"-">> \o NatDigits(0 - i) ELSE NatDigits(i)

\* to_string(float): std::fixed, setprecision(2)
FixedDigits(a) ==
    NatDigits(a \div Scale) \o <<".">>
    \o <<Digits[((a % Scale) \div 10) + 1], Digits[(a % 10) + 1]>>

ToStringFloat(f) == (IF f < 0 THEN <<"-">> ELSE <<>>) \o FixedDigits(Abs(f))

\* Number of leading digits of w from position i on.
RECURSIVE DigitRun(_, _)
DigitRun(w, i) ==
    IF i <= Len(w) /\ IsDigit(w[i]) THEN 1 + DigitRun(w, i + 1) ELSE 0

\* Value of the digits w[i .. i+n-1].
RECURSIVE DigitsVal(_, _, _)
DigitsVal(w, i, n) ==
    IF n = 0 THEN 0
    ELSE 10 * DigitsVal(w, i, n - 1) + DigitVal(w[i + n - 1])

SignLen(w) == IF Len(w) >= 1 /\ w[1] \in {"-", "+"} THEN 1 ELSE 0

SignOf(w) == IF Len(w) >= 1 /\ w[1] = "-" THEN 0 - 1 ELSE 1

\* std::stoi: optional sign, then digits; the longest prefix is converted.
\* No digit: std::invalid_argument.
StoiThrows(w) == DigitRun(w, SignLen(w) + 1) = 0

StoiAt(w, s) == SignOf(w) * DigitsVal(w, s + 1, DigitRun(w, s + 1))

Stoi(w) == StoiAt(w, SignLen(w))

\* std::stof: optional sign, digits, optional point and digits; the longest
\* prefix is converted.  No digit in the mantissa: std::invalid_argument.
StofIntLen(w) == DigitRun(w, SignLen(w) + 1)

\* the digits after the point at position p, when there is a point
FracLenAt(w, p) == IF p <= Len(w) /\ w[p] = "." THEN DigitRun(w, p + 1) ELSE 0

StofFracLen(w) == FracLenAt(w, SignLen(w) + StofIntLen(w) + 1)

StofThrows(w) == StofIntLen(w) + StofFracLen(w) = 0

\* sign length s, n digits, a point, k digits of which two are kept
StofAt(w, s, n, k) ==
    SignOf(w) * (DigitsVal(w, s + 1, n) * Scale
                 + 10 * (IF k >= 1 THEN DigitVal(w[s + n + 2]) ELSE 0)
                 + (IF k >= 2 THEN DigitVal(w[s + n + 3]) ELSE 0))

Stof(w) == StofAt(w, SignLen(w), StofIntLen(w), StofFracLen(w))

-----------------------------------------------------------------------------
(* Vec2 (Maths.h): a pair <<x, y>> of floats *)

VecAdd(a, b) == <<a[1] + b[1], a[2] + b[2]>>

VecSub(a, b) == <<a[1] - b[1], a[2] - b[2]>>

\* float * float and float / float on hundredths; the inputs of the model
\* are chosen so that the quotient by Scale (or by b) is exact.
FMul(a, b) == (a * b) \div Scale

FDiv(a, b) == (a * Scale) \div b

VecScale(k, a) == <<FMul(k, a[1]), FMul(k, a[2])>>

Dot(a, b) == FMul(a[1], b[1]) + FMul(a[2], b[2])

\* fast_sin / fast_cos at a whole number q of quarter turns
FastSin(q) == CASE q % 4 = 0 -> 0 [] q % 4 = 1 -> Scale [] q % 4 = 2 -> 0 [] OTHER -> 0 - Scale

FastCos(q) == CASE q % 4 = 0 -> Scale [] q % 4 = 1 -> 0 [] q % 4 = 2 -> 0 - Scale [] OTHER -> 0

\* (int) f : conversion of a float to int truncates toward zero
ToInt(f) == IF f < 0 THEN 0 - ((0 - f) \div Scale) ELSE f \div Scale

\* int converted to float
ToFloat(i) == i * Scale

-----------------------------------------------------------------------------
(* Shape::Derivedtype, Shape::Functions and the keyword table *)

CIRCLE == 0
POLYGON == 1
LINE == 2
ELLIPSE == 3
IMAGE == 4
END_ENUM == 5
UNKNOWN == 5

kwCircle == <<"c", "i", "r", "c", "l", "e">>
kwPolygon == <<"p", "o", "l", "y", "g", "o", "n">>
kwLine == <<"l", "i", "n", "e">>
kwEllipse == <<"e", "l", "l", "i", "p", "s", "e">>
kwAnnotation == <<"a", "n", "n", "o", "t", "a", "t", "i", "o", "n">>

\* Shape::shapes
shapes == <<kwCircle, kwPolygon, kwLine, kwEllipse>>

\* Shape::ShapeStringToEnum
ShapeStringToEnum(s) ==
    IF \E i \in 1..Len(shapes) : shapes[i] = s
    THEN (CHOOSE i \in 1..Len(shapes) : shapes[i] = s) - 1
    ELSE END_ENUM

-----------------------------------------------------------------------------
(* The leaf shapes *)

Circle(o, r, c) == [m_type |-> CIRCLE, m_origin |-> o, m_radius |-> r, m_color |-> c]

Polygon(pts, c) == [m_type |-> POLYGON, m_points |-> pts, m_color |-> c]

Line(p, d, c) == [m_type |-> LINE, m_point |-> p, m_direction |-> d, m_color |-> c]

Ellipse(o, r, c) == [m_type |-> ELLIPSE, m_origin |-> o, m_radius |-> r, m_color |-> c]

\* an Image held as a component of another Image: Shape(Shape::IMAGE,
\* Color(0, 0, 0)), the shapes its components_ point to, annotation, origin_
Image(cs, a, o) ==
    [m_type |-> IMAGE, m_color |-> <<0, 0, 0>>, components_ |-> cs,
     annotation |-> a, origin_ |-> o]

\* operator== of Circle, Polygon, Line, Ellipse
ShapeEq(a, b) ==
    /\ a.m_type = b.m_type
    /\ CASE a.m_type = CIRCLE ->
              a.m_origin = b.m_origin /\ a.m_radius = b.m_radius /\ a.m_color = b.m_color
         [] a.m_type = POLYGON -> a.m_points = b.m_points
         [] a.m_type = LINE -> a.m_point = b.m_point /\ a.m_direction = b.m_direction
         [] OTHER -> a.m_origin = b.m_origin /\ a.m_radius = b.m_radius

TranslateFirstPoint(s, v) ==
    CASE s.m_type = CIRCLE -> [s EXCEPT !.m_origin = VecAdd(@, v)]
      [] s.m_type = POLYGON -> [s EXCEPT !.m_points[1] = VecAdd(@, v)]
      [] s.m_type = LINE -> [s EXCEPT !.m_point = VecAdd(@, v)]
      [] OTHER -> [s EXCEPT !.m_origin = VecAdd(@, v)]

\* translate(v)
RECURSIVE Translate(_, _)
Translate(s, v) ==
    CASE s.m_type = CIRCLE -> [s EXCEPT !.m_origin = VecAdd(@, v)]
      [] s.m_type = POLYGON ->
            [s EXCEPT !.m_points = [i \in 1..Len(@) |-> VecAdd(@[i], v)]]
      [] s.m_type = LINE -> [s EXCEPT !.m_point = VecAdd(@, v)]
      [] s.m_type = IMAGE ->
            [s EXCEPT !.components_ = [i \in 1..Len(@) |-> Translate(@[i], v)]]
      [] OTHER -> [s EXCEPT !.m_origin = VecAdd(@, v)]

\* M |-> p + ratio * (M - p)
HomothetyPoint(m, p, ratio) == VecAdd(p, VecScale(ratio, VecSub(m, p)))

\* homothety(p, ratio)
Homothety(s, p, ratio) ==
    CASE s.m_type = CIRCLE ->
            [s EXCEPT !.m_origin = HomothetyPoint(@, p, ratio),
                      !.m_radius = FMul(@, ratio)]
      [] s.m_type = POLYGON ->
            [s EXCEPT !.m_points = [i \in 1..Len(@) |-> HomothetyPoint(@[i], p, ratio)]]
      [] s.m_type = LINE -> s
      [] OTHER ->
            [s EXCEPT !.m_origin = HomothetyPoint(@, p, ratio),
                      !.m_radius = VecScale(ratio, @)]

\* the rotation of m about p by q quarter turns, as the rotate bodies compute it
RotatePoint(m, p, q) ==
    LET u == VecSub(m, p)
    IN  <<FMul(u[1], FastCos(q)) - FMul(u[2], FastSin(q)) + p[1],
          FMul(u[1], FastSin(q)) + FMul(u[2], FastCos(q)) + p[2]>>

\* rotate(p, angle)
Rotate(s, p, q) ==
    CASE s.m_type = CIRCLE -> [s EXCEPT !.m_origin = RotatePoint(@, p, q)]
      [] s.m_type = POLYGON ->
            [s EXCEPT !.m_points = [i \in 1..Len(@) |-> RotatePoint(@[i], p, q)]]
      [] s.m_type = LINE ->
            LET e == RotatePoint(VecAdd(s.m_point, s.m_direction), p, q)
                c == RotatePoint(s.m_point, p, q)
            IN  [s EXCEPT !.m_point = c, !.m_direction = VecSub(e, c)]
      [] OTHER -> s

CentralSymPointHalf(m, p) == VecAdd(m, VecScale(Scale, VecSub(p, m)))

\* M + 2 * (p - M)
CentralSymPoint(m, p) == VecAdd(m, VecScale(2 * Scale, VecSub(p, m)))

\* centralSym(p)
CentralSym(s, p) ==
    CASE s.m_type = CIRCLE -> [s EXCEPT !.m_origin = CentralSymPoint(@, p)]
      [] s.m_type = POLYGON ->
            [s EXCEPT !.m_points = [i \in 1..Len(@) |-> CentralSymPoint(@[i], p)]]
      [] s.m_type = LINE -> [s EXCEPT !.m_point = CentralSymPoint(@, p)]
      [] OTHER -> [s EXCEPT !.m_origin = CentralSymPoint(@, p)]

\* M + 2 * (I - M), I the projection of M on the line through p directed by d
AxialSymPoint(m, p, d) ==
    LET p1 == VecAdd(p, d)
        w  == VecSub(m, p)
        vl == VecSub(p1, p)
        b  == FDiv(Dot(w, vl), Dot(vl, vl))
        intersection == VecAdd(p, VecScale(b, vl))
    IN  VecAdd(m, VecScale(2 * Scale, VecSub(intersection, m)))

\* axialSym(p, d)
AxialSym(s, p, d) ==
    CASE s.m_type = CIRCLE -> [s EXCEPT !.m_origin = AxialSymPoint(@, p, d)]
      [] s.m_type = POLYGON ->
            [s EXCEPT !.m_points = [i \in 1..Len(@) |-> AxialSymPoint(@[i], p, d)]]
      [] s.m_type = LINE -> s
      [] OTHER -> [s EXCEPT !.m_origin = AxialSymPoint(@, p, d)]


-----------------------------------------------------------------------------
(* BoundingBox and bounding_box() of the leaf shapes *)

BoxSentinel == 10000

\* BoundingBox(): x_max(-10000), y_max(-10000), x_min(10000), y_min(10000)
EmptyBox ==
    [x_max |-> 0 - BoxSentinel, x_min |-> BoxSentinel,
     y_max |-> 0 - BoxSentinel, y_min |-> BoxSentinel]

\* Circle::bounding_box
CircleBox(s) ==
    [x_min |-> ToInt(s.m_origin[1] - s.m_radius),
     x_max |-> ToInt(s.m_origin[1] + s.m_radius),
     y_min |-> ToInt(s.m_origin[2] - s.m_radius),
     y_max |-> ToInt(s.m_origin[2] + s.m_radius)]

\* the body of the loop of Polygon::bounding_box for one point
PolygonBoxPoint(b, point) ==
    [x_min |-> IF point[1] < ToFloat(b.x_min) THEN ToInt(point[1]) ELSE b.x_min,
     x_max |-> IF point[1] > ToFloat(b.x_max) THEN ToInt(point[1]) ELSE b.x_max,
     y_min |-> IF point[2] < ToFloat(b.y_min) THEN ToInt(point[2]) ELSE b.y_min,
     y_max |-> IF point[2] > ToFloat(b.y_max) THEN ToInt(point[2]) ELSE b.y_max]

RECURSIVE PolygonBoxLoop(_, _)
PolygonBoxLoop(b, pts) ==
    IF pts = <<>> THEN b
    ELSE PolygonBoxLoop(PolygonBoxPoint(b, Head(pts)), Tail(pts))

\* Polygon::bounding_box
PolygonBox(s) == PolygonBoxLoop(EmptyBox, s.m_points)

\* Line::bounding_box
LineBox(s) ==
    LET p2 == VecAdd(s.m_point, s.m_direction)
        b1 == IF p2[1] < s.m_point[1]
              THEN [EmptyBox EXCEPT !.x_min = ToInt(p2[1]), !.x_max = ToInt(s.m_point[1])]
              ELSE EmptyBox
    IN  IF p2[2] < s.m_point[2]
        THEN [b1 EXCEPT !.y_min = ToInt(p2[2]), !.y_max = ToInt(s.m_point[2])]
        ELSE b1

\* Ellipse::bounding_box
EllipseBox(s) ==
    [x_min |-> ToInt(s.m_origin[1] - s.m_radius[1]),
     x_max |-> ToInt(s.m_origin[1] + s.m_radius[1]),
     y_min |-> ToInt(s.m_origin[2] - s.m_radius[2]),
     y_max |-> ToInt(s.m_origin[2] + s.m_radius[2])]

\* component->bounding_box()
bounding_box(s) ==
    CASE s.m_type = CIRCLE -> CircleBox(s)
      [] s.m_type = POLYGON -> PolygonBox(s)
      [] s.m_type = LINE -> LineBox(s)
      [] OTHER -> EllipseBox(s)

-----------------------------------------------------------------------------
(* serialize *)

Sp == <<" ">>

SerializeColor(c) ==
    Sp \o ToStringInt(c[1]) \o Sp \o ToStringInt(c[2]) \o Sp \o ToStringInt(c[3])

SerializeVecSwapped(v) == Sp \o ToStringFloat(v[2]) \o Sp \o ToStringFloat(v[1])

SerializeVec(v) == Sp \o ToStringFloat(v[1]) \o Sp \o ToStringFloat(v[2])

RECURSIVE SerializePoints(_)
SerializePoints(pts) ==
    IF pts = <<>> THEN <<>>
    ELSE SerializeVec(Head(pts)) \o SerializePoints(Tail(pts))

\* the annotation clause Image::serialize ends with
AnnotationClause(a) ==
    Sp \o kwAnnotation \o Sp \o ToStringInt(Len(a)) \o Sp \o a

\* Circle::serialize, Polygon::serialize, Line::serialize, Ellipse::serialize,
\* and Image::serialize of an Image held as a component: the text appended
\* to serial
RECURSIVE SerializeAll(_)
RECURSIVE SerializeShape(_)
SerializeShape(s) ==
    CASE s.m_type = CIRCLE ->
            Sp \o kwCircle \o SerializeVec(s.m_origin)
               \o Sp \o ToStringFloat(s.m_radius) \o SerializeColor(s.m_color)
      [] s.m_type = POLYGON ->
            Sp \o kwPolygon \o Sp \o ToStringInt(Len(s.m_points))
               \o SerializePoints(s.m_points) \o SerializeColor(s.m_color)
      [] s.m_type = LINE ->
            Sp \o kwLine \o SerializeVec(s.m_point) \o SerializeVec(s.m_direction)
               \o SerializeColor(s.m_color)
      [] s.m_type = IMAGE ->
            SerializeAll(s.components_) \o AnnotationClause(s.annotation)
      [] OTHER ->
            Sp \o kwEllipse \o SerializeVec(s.m_origin) \o SerializeVec(s.m_radius)
               \o SerializeColor(s.m_color)

SerializeAll(ss) ==
    IF ss = <<>> THEN <<>> ELSE SerializeShape(Head(ss)) \o SerializeAll(Tail(ss))

\* Image::serialize(serial): the new value of serial
ImageSerialize(ser, ss, a) == ser \o SerializeAll(ss) \o AnnotationClause(a)

-----------------------------------------------------------------------------
(* std::istringstream: a position in the text, eofbit and failbit *)

BufferSize == 1024

StreamOpen == [pos |-> 1, eof |-> FALSE, fail |-> FALSE]

RECURSIVE SkipSpace(_, _)
SkipSpace(s, p) ==
    IF p <= Len(s) /\ IsSpace(s[p]) THEN SkipSpace(s, p + 1) ELSE p

\* the position of the first white space from p on, or the end of the text
WordEnd(s, p) ==
    IF \E q \in p..Len(s) : IsSpace(s[q])
    THEN CHOOSE q \in p..Len(s) : IsSpace(s[q]) /\ \A r \in p..(q - 1) : ~IsSpace(s[r])
    ELSE IF p > Len(s) THEN p ELSE Len(s) + 1

\* the position of the first newline from p on, or the end of the text
LineEnd(s, p) ==
    IF \E q \in p..Len(s) : s[q] = "\n"
    THEN CHOOSE q \in p..Len(s) : s[q] = "\n" /\ \A r \in p..(q - 1) : s[r] # "\n"
    ELSE IF p > Len(s) THEN p ELSE Len(s) + 1

\* buf >> word.  A stream that is not good() sets failbit and leaves word as
\* it is; so does a stream that holds only white space.  Otherwise the next
\* token replaces word, and eofbit is set when the token ends the text.
Token(s, p, q) ==
    [st |-> [pos |-> q, eof |-> q > Len(s), fail |-> FALSE], word |-> SubSeq(s, p, q - 1)]

ReadWordAt(s, word, p) ==
    IF p > Len(s)
    THEN [st |-> [pos |-> p, eof |-> TRUE, fail |-> TRUE], word |-> word]
    ELSE Token(s, p, WordEnd(s, p))

ReadWord(s, st, word) ==
    IF st.fail \/ st.eof
    THEN [st |-> [st EXCEPT !.fail = TRUE], word |-> word]
    ELSE ReadWordAt(s, word, SkipSpace(s, st.pos))

\* buf.getline(buffer, n): stores characters up to end of text (eofbit), a
\* newline (extracted, not stored) or n - 1 stored characters (failbit), then
\* a terminator when n > 0.  written counts the bytes stored in buffer;
\* when n <= 0 nothing is stored and buffer stays uninitialized.
\* k characters stored, the stream then at nxt: at the end of the text, at
\* the newline, or stopped by the size of the buffer
GetLineEnd(s, st, n, k, nxt, atEof, atDelim) ==
    [st |-> [pos |-> IF atDelim THEN nxt + 1 ELSE nxt,
             eof |-> atEof,
             fail |-> (~atEof /\ ~atDelim) \/ (k = 0 /\ ~atDelim)],
     text |-> SubSeq(s, st.pos, nxt - 1),
     written |-> IF n > 0 THEN k + 1 ELSE 0,
     uninit |-> n <= 0]

GetLineStored(s, st, n, k) ==
    GetLineEnd(s, st, n, k, st.pos + k, st.pos + k > Len(s),
               st.pos + k <= Len(s) /\ s[st.pos + k] = "\n")

GetLineRoom(s, st, n, len, room) ==
    GetLineStored(s, st, n, IF len < room THEN len ELSE room)

GetLine(s, st, n) ==
    IF st.fail \/ st.eof
    THEN [st |-> [st EXCEPT !.fail = TRUE], text |-> <<>>,
          written |-> IF n > 0 THEN 1 ELSE 0, uninit |-> n <= 0]
    ELSE GetLineRoom(s, st, n, LineEnd(s, st.pos) - st.pos, IF n < 1 THEN 0 ELSE n - 1)


-----------------------------------------------------------------------------
(* Image::deserialize: one pass of the outer loop *)

NoShape == [m_type |-> END_ENUM]

\* The buf >> word / std::stof / std::stoi pairs of one try block, in order.
\* kinds holds "f" for a float field and "i" for an int field; a conversion
\* that throws ends the block with the stream where it stands.
ConvertThrows(kind, w) == IF kind = "f" THEN StofThrows(w) ELSE StoiThrows(w)

Convert(kind, w) == IF kind = "f" THEN Stof(w) ELSE Stoi(w)

RECURSIVE ReadFields(_, _, _, _, _)
ReadField(s, r, kinds, vals) ==
    IF ConvertThrows(Head(kinds), r.word)
    THEN [st |-> r.st, word |-> r.word, vals |-> vals, threw |-> TRUE]
    ELSE ReadFields(s, r.st, r.word, Tail(kinds), Append(vals, Convert(Head(kinds), r.word)))

ReadFields(s, st, word, kinds, vals) ==
    IF kinds = <<>>
    THEN [st |-> st, word |-> word, vals |-> vals, threw |-> FALSE]
    ELSE ReadField(s, ReadWord(s, st, word), kinds, vals)

CircleFields == <<"f", "f", "f", "i", "i", "i">>

LineFields == <<"f", "f", "f", "f", "i", "i", "i">>

EllipseFields == <<"f", "f", "f", "f", "i", "i", "i">>

PolygonFieldsOneMore(nb_pts) ==
    [i \in 1..(IF nb_pts > 0 THEN 2 * nb_pts + 2 ELSE 2) |-> "f"] \o <<"i", "i", "i">>

PolygonFields(nb_pts) ==
    [i \in 1..(IF nb_pts > 0 THEN 2 * nb_pts ELSE 0) |-> "f"] \o <<"i", "i", "i">>

Step(kind, st, word, sh, text, g) ==
    [kind |-> kind, st |-> st, word |-> word, shape |-> sh, text |-> text,
     written |-> g.written, uninit |-> g.uninit]

NoGetLine == [written |-> 0, uninit |-> FALSE]

Skip(f) == Step("skip", f.st, f.word, NoShape, <<>>, NoGetLine)

Add(f, sh) == Step("add", f.st, f.word, sh, <<>>, NoGetLine)

\* case Shape::CIRCLE, f the fields the try block read
CaseCircle(f, v) ==
    IF f.threw THEN Skip(f)
    ELSE Add(f, Circle(<<v[1], v[2]>>, v[3], <<v[4], v[5], v[6]>>))

\* case Shape::POLYGON once nb_pts is read (np is the number of turns of the
\* inner loop)
CasePolygonPoints(f, v, np) ==
    IF f.threw THEN Skip(f)
    ELSE Add(f, Polygon([i \in 1..np |-> <<v[2 * i - 1], v[2 * i]>>],
                        <<v[2 * np + 1], v[2 * np + 2], v[2 * np + 3]>>))

PolygonRead(s, n, nb_pts) == ReadFields(s, n.st, n.word, PolygonFields(nb_pts), <<>>)

CasePolygonCount(s, n, nb_pts) ==
    CasePolygonPoints(PolygonRead(s, n, nb_pts), PolygonRead(s, n, nb_pts).vals,
                      IF nb_pts > 0 THEN nb_pts ELSE 0)

CasePolygon(s, n) ==
    IF n.threw THEN Skip(n) ELSE CasePolygonCount(s, n, n.vals[1])

\* case Shape::LINE
CaseLine(f, v) ==
    IF f.threw THEN Skip(f)
    ELSE Add(f, Line(<<v[1], v[2]>>, <<v[3], v[4]>>, <<v[5], v[6], v[7]>>))

\* case Shape::ELLIPSE
CaseEllipse(f, v) ==
    IF f.threw THEN Skip(f)
    ELSE Add(f, Ellipse(<<v[1], v[2]>>, <<v[3], v[4]>>, <<v[5], v[6], v[7]>>))

CaseUnknownLine(w, g) == Step("annotate", g.st, w.word, NoShape, g.text, g)

\* case Shape::UNKNOWN, w the result of buf >> word
CaseUnknown(s, w) ==
    IF StoiThrows(w.word)
    THEN Step("throw", w.st, w.word, NoShape, <<>>, NoGetLine)
    ELSE CaseUnknownLine(w, GetLine(s, w.st, Stoi(w.word) + 2))

FieldsOf(s, r, kinds) == ReadFields(s, r.st, r.word, kinds, <<>>)

\* switch (Shape::ShapeStringToEnum(word)), r the result of buf >> word
Switch(s, r, t) ==
    CASE t = CIRCLE -> CaseCircle(FieldsOf(s, r, CircleFields), FieldsOf(s, r, CircleFields).vals)
      [] t = POLYGON -> CasePolygon(s, FieldsOf(s, r, <<"i">>))
      [] t = LINE -> CaseLine(FieldsOf(s, r, LineFields), FieldsOf(s, r, LineFields).vals)
      [] t = ELLIPSE -> CaseEllipse(FieldsOf(s, r, EllipseFields), FieldsOf(s, r, EllipseFields).vals)
      [] t = UNKNOWN -> CaseUnknown(s, ReadWord(s, r.st, r.word))
      [] OTHER -> Step("none", r.st, r.word, NoShape, <<>>, NoGetLine)

LoopCondition(s, r) ==
    IF r.st.fail THEN Step("exit", r.st, r.word, NoShape, <<>>, NoGetLine)
    ELSE Switch(s, r, ShapeStringToEnum(r.word))

\* One evaluation of the loop condition buf >> word and of the switch body.
\* kind is "exit" (the condition failed), "add" (add_component(new ...)),
\* "skip" (the catch block ran), "annotate" (annotate(text)) or "throw"
\* (an exception left deserialize).
DeserializeStep(s, st, word) == LoopCondition(s, ReadWord(s, st, word))

\* The whole loop, run by one thread with nothing in between.
RECURSIVE DeserializeLoop(_, _, _, _, _, _, _)
LoopBody(s, d, added, texts, wr, un) ==
        CASE d.kind = "exit" ->
                [added |-> added, texts |-> texts, outcome |-> "returned",
                 written |-> wr, uninit |-> un]
          [] d.kind = "throw" ->
                [added |-> added, texts |-> texts, outcome |-> "threw",
                 written |-> wr, uninit |-> un]
          [] d.kind = "add" ->
                DeserializeLoop(s, d.st, d.word, Append(added, d.shape), texts, wr, un)
          [] d.kind = "annotate" ->
                DeserializeLoop(s, d.st, d.word, added, Append(texts, d.text),
                                IF d.written > wr THEN d.written ELSE wr,
                                un \/ d.uninit)
          [] OTHER -> DeserializeLoop(s, d.st, d.word, added, texts, wr, un)

DeserializeLoop(s, st, word, added, texts, wr, un) ==
    LoopBody(s, DeserializeStep(s, st, word), added, texts, wr, un)

\* the shapes handed to add_component and the texts handed to annotate by
\* deserialize(s), in order, and how the call ended
Parse(s) == DeserializeLoop(s, StreamOpen, <<>>, <<>>, <<>>, 0, FALSE)


-----------------------------------------------------------------------------
(* Image: the operations as functions of the fields *)

Threads == {"t1", "t2"}

NoThread == "none"

\* the Shape objects components_ points to, in order
Shapes(h, comps) == [i \in 1..Len(comps) |-> h[comps[i]]]

Pointers(comps) == {comps[i] : i \in 1..Len(comps)}

\* Image::translate: component->translate(v) for every entry of components_
RECURSIVE ImageTranslate(_, _, _)
ImageTranslate(h, comps, v) ==
    IF comps = <<>> THEN h
    ELSE ImageTranslate([h EXCEPT ![Head(comps)] = Translate(@, v)], Tail(comps), v)

add_component_untranslated(h, comps, o, s) ==
    [heap |-> h, components_ |-> Append(comps, s)]

\* Image::add_component(s): s->translate(origin_); components_.push_back(s)
add_component(h, comps, o, s) ==
    [heap |-> [h EXCEPT ![s] = Translate(@, o)], components_ |-> Append(comps, s)]

SetOriginVectorReversed(o, new_origin) == VecSub(new_origin, o)

\* Image::origin(new_origin): Vec2 v = (origin_ - new_origin)
SetOriginVector(o, new_origin) == VecSub(o, new_origin)

ImageOrigin(h, comps, o, new_origin) ==
    [heap |-> ImageTranslate(h, comps, SetOriginVector(o, new_origin)),
     origin_ |-> new_origin]

DeserializeClearSkipped(comps) == comps

\* components_.clear() at the head of Image::deserialize
DeserializeClear(comps) == <<>>

\* components_.clear() in Image::~Image
DestructorClear(comps) == <<>>

\* the pointers on which Image::~Image and Image::deserialize call delete
Deleted(comps) == {}

\* add_component(new ...) for each shape of a list, in order
RECURSIVE AddAll(_, _, _, _)
AddAll(h, comps, o, ss) ==
    IF ss = <<>> THEN [heap |-> h, components_ |-> comps]
    ELSE LET a == add_component(Append(h, Head(ss)), comps, o, Len(h) + 1)
         IN  AddAll(a.heap, a.components_, o, Tail(ss))

\* Image::deserialize, run by one thread with nothing in between; r is what
\* the loop found in the text
ImageDeserialize(h, comps, ann, o, r) ==
    LET a == AddAll(h, DeserializeClear(comps), o, r.added)
    IN  [heap |-> a.heap, components_ |-> a.components_,
         annotation |-> IF r.texts = <<>> THEN ann ELSE r.texts[Len(r.texts)],
         outcome |-> r.outcome]


\* the body of the loop of Image::bounding_box for one component box b
ImageBoxStepLast(bb_, b) ==
    [x_max |-> b.x_max, x_min |-> b.x_min, y_max |-> b.y_max, y_min |-> b.y_min]

ImageBoxStep(bb_, b) ==
    [x_max |-> IF bb_.x_max < b.x_max THEN b.x_max ELSE bb_.x_max,
     x_min |-> IF bb_.x_min > b.x_min THEN b.x_min ELSE bb_.x_min,
     y_max |-> IF bb_.y_max < b.y_max THEN b.y_max ELSE bb_.y_max,
     y_min |-> IF bb_.y_min > b.y_min THEN b.y_min ELSE bb_.y_min]

\* Image::bounding_box over a list of shapes
RECURSIVE ImageBox(_, _)
ImageBox(bb_, ss) ==
    IF ss = <<>> THEN bb_
    ELSE ImageBox(ImageBoxStep(bb_, bounding_box(Head(ss))), Tail(ss))

\* a transform call: its name and arguments (p: vector or point, d: direction,
\* k: ratio or number of quarter turns)
F(name, p, d, k) == [name |-> name, p |-> p, d |-> d, k |-> k]

\* component->translate(v), homothety(p, ratio), rotate(p, angle),
\* centralSym(c), axialSym(p, d): what the loops of Image call on a component
Transform(f, s) ==
    CASE f.name = "translate" -> Translate(s, f.p)
      [] f.name = "homothety" -> Homothety(s, f.p, f.k)
      [] f.name = "rotate" -> Rotate(s, f.p, f.k)
      [] f.name = "centralSym" -> CentralSym(s, f.p)
      [] OTHER -> AxialSym(s, f.p, f.d)

-----------------------------------------------------------------------------
(* Inputs *)

Red == <<255, 0, 0>>
Blue == <<0, 0, 255>>
Orange == <<255, 128, 50>>
Green == <<0, 255, 0>>

InCircle == Circle(<<0, 0>>, 100, Red)
InPolygon == Polygon(<<<<0, 0>>, <<150, 0>>, <<150, 225>>>>, Blue)
InLine == Line(<<-250, 300>>, <<100, -100>>, Orange)
InEllipse == Ellipse(<<600, 500>>, <<100, 50>>, Green)

\* the shapes callers pass to add_component
ShapeInputs == {InCircle, InPolygon, InLine, InEllipse}

\* the origins callers pass to the constructor and to origin(new_origin)
Origins == {<<0, 0>>, <<1000, 0>>}

\* the texts callers pass to annotate
Annotations == {<<>>, <<"h", "i">>, <<"a", " ", "b">>}

Word(w) == Sp \o w

kwTriangle == <<"t", "r", "i", "a", "n", "g", "l", "e">>
Foo == <<"f", "o", "o">>

\* circle records with one non-numeric token in a numeric field:
\* circle foo 0 5 255 0 0, circle 1 2 3 255 foo 0, circle 1 2 3 255 0 foo
BadCircleX ==
    Word(kwCircle) \o Word(Foo) \o Word(<<"0">>) \o Word(<<"5">>)
        \o Word(<<"2", "5", "5">>) \o Word(<<"0">>) \o Word(<<"0">>)
BadCircleG ==
    Word(kwCircle) \o Word(<<"1">>) \o Word(<<"2">>) \o Word(<<"3">>)
        \o Word(<<"2", "5", "5">>) \o Word(Foo) \o Word(<<"0">>)
BadCircleB ==
    Word(kwCircle) \o Word(<<"1">>) \o Word(<<"2">>) \o Word(<<"3">>)
        \o Word(<<"2", "5", "5">>) \o Word(<<"0">>) \o Word(Foo)

BadRecords == {BadCircleX, BadCircleG, BadCircleB}

\* keywords that are none of circle, polygon, line, ellipse, annotation
UnknownKeywords == {kwTriangle, <<"7">>}

\* A stream: well-formed records, then (optionally) one foreign piece of text,
\* then well-formed records.  mid is <<>>, a bad record or an unknown keyword.
Stream(before, mid, after) == SerializeAll(before) \o mid \o SerializeAll(after)

Prefix == <<InLine>>
Suffix == <<InEllipse>>

CorruptStreams == {Stream(Prefix, m, Suffix) : m \in BadRecords}

UnknownStreams == {Stream(Prefix, Word(k), Suffix) : k \in UnknownKeywords}

PlainStreams == {Stream(Prefix, <<>>, Suffix), <<>>}

\* the texts callers pass to deserialize, besides the text serialize produced
Streams == CorruptStreams \cup UnknownStreams \cup PlainStreams

\* what deserialize finds in each of them
Parsed == [s \in Streams |-> Parse(s)]

ParseOf(s) == IF s \in Streams THEN Parsed[s] ELSE Parse(s)

-----------------------------------------------------------------------------
(* Spec: one thread constructs an Image and calls its operations, one after *)
(* the other                                                                 *)

\* the locals of a thread: the call (op, arg), the transform it runs (f), the
\* label its lock_guard scope starts at (body) and the label it goes to when
\* the scope ends (ret), the loop iterator (it, end), what it has computed
\* (acc), the stream of deserialize (st, word), the shape it allocated (ptr)
NoLoc ==
    [op |-> "none", arg |-> <<>>, f |-> <<>>, body |-> "idle", ret |-> "idle",
     it |-> 0, end |-> 0, acc |-> <<>>, st |-> StreamOpen, word |-> <<>>, ptr |-> 0,
     msg |-> <<>>]

NoSource == [shapes |-> <<>>, annotation |-> <<>>, origin |-> <<0, 0>>, valid |-> FALSE]

NoBox == [x_max |-> 0, x_min |-> 0, y_max |-> 0, y_min |-> 0]

\* the record of a call that has returned (or thrown); count numbers the calls
Call(op, arg, outcome, count) ==
    [op |-> op, arg |-> arg, outcome |-> outcome, count |-> count]

ThreadsIdle ==
    /\ mutex = NoThread
    /\ pc = [t \in Threads |-> "idle"]
    /\ loc = [t \in Threads |-> NoLoc]
    /\ touch = [t \in Threads |-> {}]
    /\ log = <<>>
    /\ calls = 0

ShapeUnused ==
    /\ shape = NoShape
    /\ bb = NoBox

threadVars == <<mutex, pc, loc, touch, log, calls>>

shapeVars == <<shape, bb>>

\* Image(Vec2 o): no component, empty annotation, origin o
Init ==
    /\ heap = <<>>
    /\ released = {}
    /\ components_ = <<>>
    /\ annotation = <<>>
    /\ origin_ \in Origins
    /\ alive = TRUE
    /\ serial = <<>>
    /\ source = NoSource
    /\ last = Call("Image", origin_, "returned", 0)
    /\ ThreadsIdle
    /\ ShapeUnused

\* a caller allocates a shape and hands it to add_component
AddComponent(s) ==
    /\ alive
    /\ last.count < MaxOps
    /\ Len(components_) < MaxComponents
    /\ LET a == add_component(Append(heap, s), components_, origin_, Len(heap) + 1)
       IN  /\ heap' = a.heap
           /\ components_' = a.components_
    /\ last' = Call("add_component", s, "returned", last.count + 1)
    /\ UNCHANGED <<released, annotation, origin_, alive, serial, source>>
    /\ UNCHANGED threadVars /\ UNCHANGED shapeVars

\* origin(new_origin)
SetOrigin(new_origin) ==
    /\ alive
    /\ last.count < MaxOps
    /\ LET r == ImageOrigin(heap, components_, origin_, new_origin)
       IN  /\ heap' = r.heap
           /\ origin_' = r.origin_
    /\ last' = Call("origin", new_origin, "returned", last.count + 1)
    /\ UNCHANGED <<released, components_, annotation, alive, serial, source>>
    /\ UNCHANGED threadVars /\ UNCHANGED shapeVars

\* annotate(msg)
Annotate(msg) ==
    /\ alive
    /\ last.count < MaxOps
    /\ annotation' = msg
    /\ last' = Call("annotate", msg, "returned", last.count + 1)
    /\ UNCHANGED <<heap, released, components_, origin_, alive, serial, source>>
    /\ UNCHANGED threadVars /\ UNCHANGED shapeVars

\* deserialize(s)
Deserialize(s) ==
    /\ alive
    /\ last.count < MaxOps
    /\ LET r == ImageDeserialize(heap, components_, annotation, origin_, ParseOf(s))
       IN  /\ heap' = r.heap
           /\ components_' = r.components_
           /\ annotation' = r.annotation
           /\ last' = Call("deserialize", s, r.outcome, last.count + 1)
    /\ released' = released \cup Deleted(components_)
    /\ UNCHANGED <<origin_, alive, serial, source>>
    /\ UNCHANGED threadVars /\ UNCHANGED shapeVars

\* ~Image()
Destroy ==
    /\ alive
    /\ last.count < MaxOps
    /\ components_' = DestructorClear(components_)
    /\ released' = released \cup Deleted(components_)
    /\ alive' = FALSE
    /\ last' = Call("~Image", <<>>, "returned", last.count + 1)
    /\ UNCHANGED <<heap, annotation, origin_, serial, source>>
    /\ UNCHANGED threadVars /\ UNCHANGED shapeVars

Next ==
    \/ \E s \in ShapeInputs : AddComponent(s)
    \/ \E o \in Origins : SetOrigin(o)
    \/ \E msg \in Annotations : Annotate(msg)
    \/ \E s \in Streams : Deserialize(s)
    \/ Destroy

Spec == Init /\ [][Next]_vars

-----------------------------------------------------------------------------
(* SpecRoundTrip: an Image that holds components and an annotation is       *)
(* serialized, and the text is deserialized into the same Image or into a   *)
(* new one                                                                  *)

\* the sequences of at most MaxComponents shapes of ShapeInputs
ShapeLists == UNION {[1..n -> ShapeInputs] : n \in 0..MaxComponents}

\* an Image(o) after add_component of each shape of a list and annotate(msg)
InitRoundTrip ==
    /\ origin_ \in Origins
    /\ \E ss \in ShapeLists :
          LET a == AddAll(<<>>, <<>>, origin_, ss)
          IN  /\ heap = a.heap
              /\ components_ = a.components_
    /\ annotation \in Annotations
    /\ released = {}
    /\ alive = TRUE
    /\ serial = <<>>
    /\ source = NoSource
    /\ last = Call("annotate", annotation, "returned", 0)
    /\ ThreadsIdle
    /\ ShapeUnused

\* std::string serial; serialize(serial)
Serialize ==
    /\ alive
    /\ last.count < MaxOps
    /\ serial' = ImageSerialize(<<>>, Shapes(heap, components_), annotation)
    /\ source' = [shapes |-> Shapes(heap, components_), annotation |-> annotation,
                  origin |-> origin_, valid |-> TRUE]
    /\ last' = Call("serialize", <<>>, "returned", last.count + 1)
    /\ UNCHANGED <<heap, released, components_, annotation, origin_, alive>>
    /\ UNCHANGED threadVars /\ UNCHANGED shapeVars

\* deserialize(serial) of the text serialize produced
DeserializeSerial ==
    /\ source.valid
    /\ Deserialize(serial)

\* a new Image(o) once the previous one is destroyed
Construct(o) ==
    /\ ~alive
    /\ last.count < MaxOps
    /\ components_' = <<>>
    /\ annotation' = <<>>
    /\ origin_' = o
    /\ alive' = TRUE
    /\ last' = Call("Image", o, "returned", last.count + 1)
    /\ UNCHANGED <<heap, released, serial, source>>
    /\ UNCHANGED threadVars /\ UNCHANGED shapeVars

NextRoundTrip ==
    \/ Serialize
    \/ DeserializeSerial
    \/ Destroy
    \/ \E o \in Origins : Construct(o)

SpecRoundTrip == InitRoundTrip /\ [][NextRoundTrip]_vars

-----------------------------------------------------------------------------
(* Properties of the sequential specifications *)

\* the positional parameters of a shape: circle and ellipse origin, polygon
\* vertices, line point
Positions(s) ==
    CASE s.m_type = CIRCLE -> <<s.m_origin>>
      [] s.m_type = POLYGON -> s.m_points
      [] s.m_type = LINE -> <<s.m_point>>
      [] OTHER -> <<s.m_origin>>

\* everything else a shape holds
Others(s) ==
    CASE s.m_type = CIRCLE -> <<s.m_type, s.m_radius, s.m_color>>
      [] s.m_type = POLYGON -> <<s.m_type, Len(s.m_points), s.m_color>>
      [] s.m_type = LINE -> <<s.m_type, s.m_direction, s.m_color>>
      [] OTHER -> <<s.m_type, s.m_radius, s.m_color>>

\* shape b is shape a with v added to every positional parameter
MovedBy(a, b, v) ==
    /\ Others(b) = Others(a)
    /\ Positions(b) = [i \in 1..Len(Positions(a)) |-> VecAdd(Positions(a)[i], v)]

\* the component list holds the shapes of ss, each moved by v, in order
HoldsMoved(h, comps, ss, v) ==
    /\ Len(comps) = Len(ss)
    /\ \A i \in 1..Len(ss) : MovedBy(ss[i], h[comps[i]], v)

\* C3: an Image with origin (0,0) serialized, then deserialized into a newly
\* constructed Image, gives a component list of the same length with an equal
\* shape at every index, and the annotation the source held.
C3_CompositeRoundTrip ==
    [][(/\ last.op = "Image"
        /\ origin_ = <<0, 0>>
        /\ last'.op = "deserialize"
        /\ source.valid
        /\ source.origin = <<0, 0>>)
       => /\ Len(components_') = Len(source.shapes)
          /\ \A i \in 1..Len(source.shapes) :
                ShapeEq(heap'[components_'[i]], source.shapes[i])
          /\ annotation' = source.annotation]_vars

\* C4: deserialize of well-formed records around one record with a
\* non-numeric token in a numeric field returns normally and holds the
\* well-formed records, in stream order.
C4_CorruptedRecordSkipped ==
    \A m \in BadRecords :
        (last.op = "deserialize" /\ last.arg = Stream(Prefix, m, Suffix))
        => /\ last.outcome = "returned"
           /\ HoldsMoved(heap, components_, Prefix \o Suffix, origin_)

\* C5: an unknown keyword at a record start is dropped: no exception, the
\* records around it are parsed, and the annotation is left as it was.
C5_UnknownKeywordIgnored ==
    [][\A k \in UnknownKeywords :
          (last'.op = "deserialize" /\ last'.arg = Stream(Prefix, Word(k), Suffix))
          => /\ last'.outcome = "returned"
             /\ HoldsMoved(heap', components_', Prefix \o Suffix, origin_)
             /\ annotation' = annotation]_vars

\* C6: when deserialize(s) returns, the component list holds the shapes
\* parsed from s in record order (as add_component stored them) and none of
\* the objects that existed before the call.
C6_DestructiveReplace ==
    [][(last'.op = "deserialize" /\ last'.outcome = "returned")
       => /\ Pointers(components_') \cap (1..Len(heap)) = {}
          /\ HoldsMoved(heap', components_', ParseOf(last'.arg).added, origin_)]_vars

\* deserialize has returned, with parsed shapes in the list, on an Image that
\* held components before the call
C6_Witness ==
    /\ last.op = "deserialize"
    /\ last.outcome = "returned"
    /\ components_ # <<>>
    /\ Len(heap) > Len(components_)
    /\ Pointers(components_) \cap {1} = {}

\* C7: add_component(s) appends s to the list, moved by origin_, and leaves
\* the components already in the list and the origin as they were.
C7_AddComponent ==
    [][last'.op = "add_component"
       => /\ components_' = Append(components_, Len(heap) + 1)
          /\ MovedBy(last'.arg, heap'[Len(heap) + 1], origin_)
          /\ \A q \in 1..Len(heap) : heap'[q] = heap[q]
          /\ origin_' = origin_]_vars

\* origin (10,0), a first component, then Circle at (0,0) stored at (10,0)
C7_Witness ==
    /\ last.op = "add_component"
    /\ last.arg = InCircle
    /\ origin_ = <<1000, 0>>
    /\ Len(components_) = 2
    /\ heap[components_[2]].m_origin = <<1000, 0>>

\* C8: origin(new_origin) moves every component by (old origin - new_origin)
\* and stores new_origin, so position + stored origin is the same after the
\* call as before it, for every component.
C8_SetOrigin ==
    [][last'.op = "origin"
       => /\ origin_' = last'.arg
          /\ components_' = components_
          /\ \A i \in 1..Len(components_) :
                LET a == heap[components_[i]]
                    b == heap'[components_[i]]
                IN  /\ MovedBy(a, b, VecSub(origin_, last'.arg))
                    /\ \A j \in 1..Len(Positions(a)) :
                          VecAdd(Positions(b)[j], origin_') = VecAdd(Positions(a)[j], origin_)]_vars

\* a circle added at (0,0) under origin (0,0) stands at (-10,0) after
\* origin((10,0))
C8_Witness ==
    /\ last.op = "origin"
    /\ origin_ = <<1000, 0>>
    /\ components_ # <<>>
    /\ heap[components_[1]] = Translate(InCircle, <<-1000, 0>>)

\* C9: every allocated shape is in the component list of the live Image or
\* has been released.
C9_OwnedShapesReleased ==
    \A q \in 1..Len(heap) :
        q \in released \/ (alive /\ q \in Pointers(components_))


-----------------------------------------------------------------------------
(* SpecShape: one leaf shape, constructed by a caller, and the calls made   *)
(* on it                                                                    *)

Coords == {-100, 0, 100}

LineInputs ==
    {Line(p, <<dx, dy>>, Orange) :
        p \in {<<0, 0>>, <<-250, 300>>}, dx \in Coords, dy \in Coords}

CircleInputs ==
    {Circle(o, r, Red) : o \in {<<0, 0>>, <<500, 500>>, <<-250, 300>>}, r \in {100, 300}}

EllipseInputs ==
    {Ellipse(o, r, Green) :
        o \in {<<0, 0>>, <<600, 500>>, <<-250, 300>>}, r \in {<<100, 50>>, <<50, 200>>}}

PolygonInputs ==
    {Polygon(<<a, <<150, 0>>, c>>, Blue) :
        a \in {<<0, 0>>, <<-250, -50>>, <<300, 400>>},
        c \in {<<150, 225>>, <<-100, 300>>, <<50, -175>>}}

LeafInputs == LineInputs \cup CircleInputs \cup EllipseInputs \cup PolygonInputs

Vectors == {<<1000, 0>>, <<-50, 25>>}

ImageUnused ==
    /\ heap = <<>>
    /\ released = {}
    /\ components_ = <<>>
    /\ annotation = <<>>
    /\ origin_ = <<0, 0>>
    /\ alive = FALSE
    /\ serial = <<>>
    /\ source = NoSource

imageVars == <<heap, released, components_, annotation, origin_, alive, serial, source>>

InitShape ==
    /\ shape \in LeafInputs
    /\ bb = NoBox
    /\ last = Call("new", shape, "returned", 0)
    /\ ImageUnused
    /\ ThreadsIdle

\* bb = shape.bounding_box()
ShapeBoundingBox ==
    /\ last.count < MaxOps
    /\ bb' = bounding_box(shape)
    /\ last' = Call("bounding_box", <<>>, "returned", last.count + 1)
    /\ UNCHANGED shape
    /\ UNCHANGED imageVars /\ UNCHANGED threadVars

\* shape.translate(v)
ShapeTranslate(v) ==
    /\ last.count < MaxOps
    /\ shape' = Translate(shape, v)
    /\ last' = Call("translate", v, "returned", last.count + 1)
    /\ UNCHANGED bb
    /\ UNCHANGED imageVars /\ UNCHANGED threadVars

NextShape ==
    \/ ShapeBoundingBox
    \/ \E v \in Vectors : ShapeTranslate(v)

SpecShape == InitShape /\ [][NextShape]_vars

-----------------------------------------------------------------------------
(* Properties of SpecShape *)

Min(a, b) == IF a < b THEN a ELSE b

Max(a, b) == IF a > b THEN a ELSE b

RECURSIVE MinOver(_, _)
MinOver(pts, k) ==
    IF Len(pts) = 1 THEN pts[1][k] ELSE Min(pts[1][k], MinOver(Tail(pts), k))

RECURSIVE MaxOver(_, _)
MaxOver(pts, k) ==
    IF Len(pts) = 1 THEN pts[1][k] ELSE Max(pts[1][k], MaxOver(Tail(pts), k))

\* the corners of the box that covers a shape: origin -/+ radius, the
\* vertices of a polygon, the two endpoints of a line
Extent(s) ==
    CASE s.m_type = CIRCLE ->
            <<VecSub(s.m_origin, <<s.m_radius, s.m_radius>>),
              VecAdd(s.m_origin, <<s.m_radius, s.m_radius>>)>>
      [] s.m_type = POLYGON -> s.m_points
      [] s.m_type = LINE -> <<s.m_point, VecAdd(s.m_point, s.m_direction)>>
      [] OTHER -> <<VecSub(s.m_origin, s.m_radius), VecAdd(s.m_origin, s.m_radius)>>

\* C10: bounding_box() of a leaf is the box of its extent (converted to int)
\* and is not inverted: x_min <= x_max and y_min <= y_max.
C10_LeafBoundingBox ==
    last.op = "bounding_box"
    => /\ bb.x_min = ToInt(MinOver(Extent(shape), 1))
       /\ bb.x_max = ToInt(MaxOver(Extent(shape), 1))
       /\ bb.y_min = ToInt(MinOver(Extent(shape), 2))
       /\ bb.y_max = ToInt(MaxOver(Extent(shape), 2))
       /\ bb.x_min <= bb.x_max
       /\ bb.y_min <= bb.y_max


-----------------------------------------------------------------------------
(* Threads: the calls of Image as steps of a thread.  A step is one access  *)
(* to the fields, one pass of a loop body, or the construction or           *)
(* destruction of the std::lock_guard.                                      *)

\* the Image the threads share: add_component of each shape, annotate("hi")
ThreadShapes == <<InCircle, InPolygon>>

TransformInputs ==
    {F("translate", <<1000, 0>>, <<>>, 0),
     F("homothety", <<100, 100>>, <<>>, 200),
     F("rotate", <<100, 0>>, <<>>, 1),
     F("centralSym", <<100, 100>>, <<>>, 0),
     F("axialSym", <<0, 100>>, <<100, 0>>, 0)}

Observers == {"bounding_box", "serialize"}

otherVars == <<released, alive, serial, source, last, shape, bb>>

InitThreads ==
    /\ LET a == AddAll(<<>>, <<>>, <<0, 0>>, ThreadShapes)
       IN  /\ heap = a.heap
           /\ components_ = a.components_
    /\ annotation = <<"h", "i">>
    /\ origin_ = <<0, 0>>
    /\ released = {}
    /\ alive = TRUE
    /\ serial = <<>>
    /\ source = NoSource
    /\ last = Call("annotate", annotation, "returned", 0)
    /\ ThreadsIdle
    /\ ShapeUnused

\* thread t starts a call: its locals are l and its first step is at label first
Begin(t, first, l) ==
    /\ pc[t] = "idle"
    /\ calls < MaxCalls
    /\ calls' = calls + 1
    /\ pc' = [pc EXCEPT ![t] = first]
    /\ loc' = [loc EXCEPT ![t] = l]
    /\ touch' = [touch EXCEPT ![t] = {}]

Goto(t, label) == pc' = [pc EXCEPT ![t] = label]

Touch(t, fields) == touch' = [touch EXCEPT ![t] = fields]

LockUnguarded(t) ==
    /\ pc[t] = "lock"
    /\ mutex' = t
    /\ Goto(t, loc[t].body)
    /\ log' = IF loc[t].body = "transform" THEN Append(log, loc[t].f) ELSE log
    /\ Touch(t, {})
    /\ UNCHANGED <<heap, components_, annotation, origin_, loc, calls>>
    /\ UNCHANGED otherVars

\* std::lock_guard<std::mutex> guard(mutex): blocks until the mutex is free
Lock(t) ==
    /\ pc[t] = "lock"
    /\ mutex = NoThread
    /\ mutex' = t
    /\ Goto(t, loc[t].body)
    /\ log' = IF loc[t].body = "transform" THEN Append(log, loc[t].f) ELSE log
    /\ Touch(t, {})
    /\ UNCHANGED <<heap, components_, annotation, origin_, loc, calls>>
    /\ UNCHANGED otherVars

\* the end of the scope of the lock_guard
Release(t) ==
    /\ mutex' = NoThread
    /\ Goto(t, loc[t].ret)
    /\ Touch(t, {})

Unlock(t) ==
    /\ pc[t] = "unlock"
    /\ Release(t)
    /\ UNCHANGED <<heap, components_, annotation, origin_, loc, log, calls>>
    /\ UNCHANGED otherVars

\* for (auto component : components_): begin() and end() are read once, when
\* the loop starts (it = 0 until then)
LoopIt(t) == IF loc[t].it = 0 THEN 1 ELSE loc[t].it

LoopEnd(t) == IF loc[t].it = 0 THEN Len(components_) ELSE loc[t].end

\* the pointer the iterator reads.  An iterator past the elements the vector
\* holds (clear() ran during the loop) reads storage the vector has given
\* up: any pointer it held.
Element(i) == IF i <= Len(components_) THEN {components_[i]} ELSE 1..Len(heap)

Advance(t) == loc' = [loc EXCEPT ![t].it = LoopIt(t) + 1, ![t].end = LoopEnd(t)]

\* translate, homothety, rotate, centralSym, axialSym of Image
CallTransform(t, f) ==
    /\ Begin(t, "lock", [NoLoc EXCEPT !.op = f.name, !.f = f, !.body = "transform"])
    /\ UNCHANGED <<heap, components_, annotation, origin_, mutex, log>>
    /\ UNCHANGED otherVars

LoopTransform(t) ==
    /\ pc[t] = "transform"
    /\ IF LoopIt(t) > LoopEnd(t)
       THEN /\ Release(t)
            /\ UNCHANGED <<heap, loc>>
       ELSE /\ \E q \in Element(LoopIt(t)) :
                  heap' = [heap EXCEPT ![q] = Transform(loc[t].f, @)]
            /\ Advance(t)
            /\ Touch(t, {"components_"})
            /\ UNCHANGED <<mutex, pc>>
    /\ UNCHANGED <<components_, annotation, origin_, log, calls>>
    /\ UNCHANGED otherVars

\* bounding_box() and serialize(serial) of Image, serial empty
CallObserver(t, op) ==
    /\ Begin(t, "lock", [NoLoc EXCEPT !.op = op, !.body = op,
                                      !.acc = IF op = "bounding_box" THEN EmptyBox ELSE <<>>])
    /\ UNCHANGED <<heap, components_, annotation, origin_, mutex, log>>
    /\ UNCHANGED otherVars

LoopBox(t) ==
    /\ pc[t] = "bounding_box"
    /\ IF LoopIt(t) > LoopEnd(t)
       THEN /\ Release(t)
            /\ UNCHANGED loc
       ELSE /\ \E q \in Element(LoopIt(t)) :
                  loc' = [loc EXCEPT ![t].it = LoopIt(t) + 1, ![t].end = LoopEnd(t),
                                     ![t].acc = ImageBoxStep(@, bounding_box(heap[q]))]
            /\ Touch(t, {"components_"})
            /\ UNCHANGED <<mutex, pc>>
    /\ UNCHANGED <<heap, components_, annotation, origin_, log, calls>>
    /\ UNCHANGED otherVars

LoopSerialize(t) ==
    /\ pc[t] = "serialize"
    /\ IF LoopIt(t) > LoopEnd(t)
       THEN /\ loc' = [loc EXCEPT ![t].acc = @ \o AnnotationClause(annotation)]
            /\ Goto(t, "unlock")
            /\ Touch(t, {"annotation"})
       ELSE /\ \E q \in Element(LoopIt(t)) :
                  loc' = [loc EXCEPT ![t].it = LoopIt(t) + 1, ![t].end = LoopEnd(t),
                                     ![t].acc = @ \o SerializeShape(heap[q])]
            /\ Touch(t, {"components_"})
            /\ UNCHANGED pc
    /\ UNCHANGED <<heap, components_, annotation, origin_, mutex, log, calls>>
    /\ UNCHANGED otherVars

NextTransforms ==
    \E t \in Threads :
        \/ \E f \in TransformInputs : CallTransform(t, f)
        \/ \E op \in Observers : CallObserver(t, op)
        \/ Lock(t)
        \/ LoopTransform(t)
        \/ LoopBox(t)
        \/ LoopSerialize(t)
        \/ Unlock(t)

\* threads call the transforms, bounding_box and serialize of one Image
SpecTransforms == InitThreads /\ [][NextTransforms]_vars


-----------------------------------------------------------------------------
(* Threads calling every public operation of one Image *)

ThreadTransforms == {F("translate", <<1000, 0>>, <<>>, 0)}
ThreadAdded == {InLine}
ThreadMessages == {<<"a">>}
ThreadOrigins == {<<1000, 500>>}
\* what serialize writes for an Image holding one Circle, annotated "x"
ThreadStreams == {ImageSerialize(<<>>, <<InCircle>>, <<"x">>)}

\* add_component(new ...): the caller allocates, then the call waits for the mutex
CallAdd(t, s) ==
    /\ Begin(t, "lock", [NoLoc EXCEPT !.op = "add_component", !.body = "add",
                                      !.ptr = Len(heap) + 1])
    /\ heap' = Append(heap, s)
    /\ UNCHANGED <<components_, annotation, origin_, mutex, log>>
    /\ UNCHANGED otherVars

\* s->translate(origin_)
BodyAdd(t) ==
    /\ pc[t] = "add"
    /\ heap' = [heap EXCEPT ![loc[t].ptr] = Translate(@, origin_)]
    /\ Goto(t, "push_back")
    /\ Touch(t, {"origin_"})
    /\ UNCHANGED <<components_, annotation, origin_, mutex, loc, log, calls>>
    /\ UNCHANGED otherVars

\* components_.push_back(s)
BodyPushBack(t) ==
    /\ pc[t] = "push_back"
    /\ components_' = Append(components_, loc[t].ptr)
    /\ Goto(t, "unlock")
    /\ Touch(t, {"components_"})
    /\ UNCHANGED <<heap, annotation, origin_, mutex, loc, log, calls>>
    /\ UNCHANGED otherVars

CallAnnotate(t, msg) ==
    /\ Begin(t, "lock", [NoLoc EXCEPT !.op = "annotate", !.body = "annotate", !.msg = msg])
    /\ UNCHANGED <<heap, components_, annotation, origin_, mutex, log>>
    /\ UNCHANGED otherVars

\* annotation = msg
BodyAnnotate(t) ==
    /\ pc[t] = "annotate"
    /\ annotation' = loc[t].msg
    /\ Goto(t, "unlock")
    /\ Touch(t, {"annotation"})
    /\ UNCHANGED <<heap, components_, origin_, mutex, loc, log, calls>>
    /\ UNCHANGED otherVars

CallGetAnnotation(t) ==
    /\ Begin(t, "lock", [NoLoc EXCEPT !.op = "get_annotation", !.body = "get_annotation"])
    /\ UNCHANGED <<heap, components_, annotation, origin_, mutex, log>>
    /\ UNCHANGED otherVars

\* return annotation
BodyGetAnnotation(t) ==
    /\ pc[t] = "get_annotation"
    /\ loc' = [loc EXCEPT ![t].acc = annotation]
    /\ Goto(t, "unlock")
    /\ Touch(t, {"annotation"})
    /\ UNCHANGED <<heap, components_, annotation, origin_, mutex, log, calls>>
    /\ UNCHANGED otherVars

\* components(): the guard lives until the reference has been returned; the
\* caller then uses the vector through the reference
CallComponents(t) ==
    /\ Begin(t, "lock", [NoLoc EXCEPT !.op = "components", !.body = "unlock", !.ret = "use"])
    /\ UNCHANGED <<heap, components_, annotation, origin_, mutex, log>>
    /\ UNCHANGED otherVars

\* the caller reads the vector: components().size()
UseComponents(t) ==
    /\ pc[t] = "use"
    /\ loc' = [loc EXCEPT ![t].acc = Len(components_)]
    /\ Goto(t, "idle")
    /\ Touch(t, {"components_"})
    /\ UNCHANGED <<heap, components_, annotation, origin_, mutex, log, calls>>
    /\ UNCHANGED otherVars

\* Vec2 origin() const: return origin_, one float after the other
CallGetOrigin(t) ==
    /\ Begin(t, "get_origin_x", [NoLoc EXCEPT !.op = "origin", !.acc = <<0, 0>>])
    /\ UNCHANGED <<heap, components_, annotation, origin_, mutex, log>>
    /\ UNCHANGED otherVars

GetOriginX(t) ==
    /\ pc[t] = "get_origin_x"
    /\ loc' = [loc EXCEPT ![t].acc[1] = origin_[1]]
    /\ Goto(t, "get_origin_y")
    /\ Touch(t, {"origin_"})
    /\ UNCHANGED <<heap, components_, annotation, origin_, mutex, log, calls>>
    /\ UNCHANGED otherVars

GetOriginY(t) ==
    /\ pc[t] = "get_origin_y"
    /\ loc' = [loc EXCEPT ![t].acc[2] = origin_[2]]
    /\ Goto(t, "idle")
    /\ Touch(t, {"origin_"})
    /\ UNCHANGED <<heap, components_, annotation, origin_, mutex, log, calls>>
    /\ UNCHANGED otherVars

\* void origin(Vec2 new_origin)
CallSetOrigin(t, new_origin) ==
    /\ Begin(t, "set_origin", [NoLoc EXCEPT !.op = "set_origin", !.arg = new_origin,
                                            !.body = "transform", !.ret = "origin_x"])
    /\ UNCHANGED <<heap, components_, annotation, origin_, mutex, log>>
    /\ UNCHANGED otherVars

\* Vec2 v = (origin_ - new_origin); then translate(v) waits for the mutex
SetOriginRead(t) ==
    /\ pc[t] = "set_origin"
    /\ loc' = [loc EXCEPT ![t].f = F("translate", SetOriginVector(origin_, loc[t].arg), <<>>, 0)]
    /\ Goto(t, "lock")
    /\ Touch(t, {"origin_"})
    /\ UNCHANGED <<heap, components_, annotation, origin_, mutex, log, calls>>
    /\ UNCHANGED otherVars

\* origin_ = new_origin, one float after the other
SetOriginX(t) ==
    /\ pc[t] = "origin_x"
    /\ origin_' = [origin_ EXCEPT ![1] = loc[t].arg[1]]
    /\ Goto(t, "origin_y")
    /\ Touch(t, {"origin_"})
    /\ UNCHANGED <<heap, components_, annotation, mutex, loc, log, calls>>
    /\ UNCHANGED otherVars

SetOriginY(t) ==
    /\ pc[t] = "origin_y"
    /\ origin_' = [origin_ EXCEPT ![2] = loc[t].arg[2]]
    /\ Goto(t, "idle")
    /\ Touch(t, {"origin_"})
    /\ UNCHANGED <<heap, components_, annotation, mutex, loc, log, calls>>
    /\ UNCHANGED otherVars

\* void deserialize(std::string s)
CallDeserialize(t, s) ==
    /\ Begin(t, "clear", [NoLoc EXCEPT !.op = "deserialize", !.arg = s, !.ret = "parse"])
    /\ UNCHANGED <<heap, components_, annotation, origin_, mutex, log>>
    /\ UNCHANGED otherVars

\* components_.clear()
DeserializeClearStep(t) ==
    /\ pc[t] = "clear"
    /\ components_' = DeserializeClear(components_)
    /\ Goto(t, "parse")
    /\ Touch(t, {"components_"})
    /\ UNCHANGED <<heap, annotation, origin_, mutex, loc, log, calls>>
    /\ UNCHANGED otherVars

\* one turn of for (std::string word; buf >> word;) up to the call of
\* add_component or annotate, which waits for the mutex
DeserializeParse(t) ==
    /\ pc[t] = "parse"
    /\ LET d == DeserializeStep(loc[t].arg, loc[t].st, loc[t].word)
           l == [loc[t] EXCEPT !.st = d.st, !.word = d.word]
       IN  CASE d.kind = "add" ->
                    /\ heap' = Append(heap, d.shape)
                    /\ loc' = [loc EXCEPT ![t] = [l EXCEPT !.body = "add", !.ptr = Len(heap) + 1]]
                    /\ Goto(t, "lock")
             [] d.kind = "annotate" ->
                    /\ loc' = [loc EXCEPT ![t] = [l EXCEPT !.body = "annotate", !.msg = d.text]]
                    /\ Goto(t, "lock")
                    /\ UNCHANGED heap
             [] d.kind \in {"exit", "throw"} ->
                    /\ loc' = [loc EXCEPT ![t] = [l EXCEPT !.acc = d.kind]]
                    /\ Goto(t, "idle")
                    /\ UNCHANGED heap
             [] OTHER ->
                    /\ loc' = [loc EXCEPT ![t] = l]
                    /\ UNCHANGED <<heap, pc>>
    /\ Touch(t, {})
    /\ UNCHANGED <<components_, annotation, origin_, mutex, log, calls>>
    /\ UNCHANGED otherVars

NextThreads ==
    \E t \in Threads :
        \/ /\ calls < MaxThreadCalls
           /\ \/ \E f \in ThreadTransforms : CallTransform(t, f)
              \/ \E op \in Observers : CallObserver(t, op)
              \/ \E s \in ThreadAdded : CallAdd(t, s)
              \/ \E msg \in ThreadMessages : CallAnnotate(t, msg)
              \/ CallGetAnnotation(t)
              \/ CallComponents(t)
              \/ CallGetOrigin(t)
              \/ \E o \in ThreadOrigins : CallSetOrigin(t, o)
              \/ \E s \in ThreadStreams : CallDeserialize(t, s)
        \/ Lock(t)
        \/ Unlock(t)
        \/ LoopTransform(t)
        \/ LoopBox(t)
        \/ LoopSerialize(t)
        \/ BodyAdd(t)
        \/ BodyPushBack(t)
        \/ BodyAnnotate(t)
        \/ BodyGetAnnotation(t)
        \/ UseComponents(t)
        \/ GetOriginX(t)
        \/ GetOriginY(t)
        \/ SetOriginRead(t)
        \/ SetOriginX(t)
        \/ SetOriginY(t)
        \/ DeserializeClearStep(t)
        \/ DeserializeParse(t)

\* threads call the public operations of one Image
SpecThreads == InitThreads /\ [][NextThreads]_vars


-----------------------------------------------------------------------------
(* Properties of the threaded specifications *)

\* C1: every public operation of Image that reads or writes components_,
\* annotation or origin_ holds the mutex during the access: a thread whose
\* latest step touched one of these fields owns the mutex.
C1_MutexHeldForAccess ==
    \A t \in Threads : touch[t] # {} => mutex = t

\* the shapes ss after the transform calls fs, one whole call after the other
RECURSIVE Serial(_, _)
Serial(fs, ss) ==
    IF fs = <<>> THEN ss
    ELSE Serial(Tail(fs), [i \in 1..Len(ss) |-> Transform(Head(fs), ss[i])])

SerialPrefixes == {Serial(SubSeq(log, 1, n), ThreadShapes) : n \in 0..Len(log)}

\* C2: transforms of one Image are atomic per call.  Whenever no call holds
\* the mutex, the components are those of the calls applied whole in the
\* order in which they took the mutex; a bounding_box() or serialize() in
\* progress reads such components, and what it returns is the result for
\* the components after some number of whole calls.
C2_TransformsAtomic ==
    /\ mutex = NoThread => Shapes(heap, components_) = Serial(log, ThreadShapes)
    /\ \A t \in Threads :
          /\ pc[t] \in Observers \cup {"unlock"}
                => Shapes(heap, components_) = Serial(log, ThreadShapes)
          /\ pc[t] = "idle" /\ loc[t].op = "bounding_box"
                => \E ss \in SerialPrefixes : loc[t].acc = ImageBox(EmptyBox, ss)
          /\ pc[t] = "idle" /\ loc[t].op = "serialize"
                => \E ss \in SerialPrefixes : loc[t].acc = ImageSerialize(<<>>, ss, annotation)

\* two transform calls that do not commute have run, and a bounding_box()
\* of the other thread returned the box of the components between them
C2_Witness ==
    /\ \A t \in Threads : pc[t] = "idle"
    /\ Len(log) = 2
    /\ Serial(log, ThreadShapes) # Serial(<<log[2], log[1]>>, ThreadShapes)
    /\ \E t \in Threads :
          /\ loc[t].op = "bounding_box"
          /\ loc[t].acc = ImageBox(EmptyBox, Serial(<<log[1]>>, ThreadShapes))
          /\ loc[t].acc # ImageBox(EmptyBox, ThreadShapes)
          /\ loc[t].acc # ImageBox(EmptyBox, Serial(log, ThreadShapes))


-----------------------------------------------------------------------------
(* SpecAlgebra: transform calls made, one after the other, on one leaf      *)
(* shape or on one Image holding leaf shapes                                *)

MaxTransforms == 2   \* transform calls made on the object in one behaviour

\* rotate(angle) of Circle (260-264), Polygon (465-476), Line (686-697) and
\* Ellipse (883), angle a whole number q of quarter turns
RotateOwn(s, q) ==
    CASE s.m_type = CIRCLE -> s
      [] s.m_type = POLYGON ->
            [s EXCEPT !.m_points = [i \in 1..Len(@) |-> RotatePoint(@[i], <<0, 0>>, q)]]
      [] s.m_type = LINE ->
            [s EXCEPT !.m_direction =
                VecSub(RotatePoint(VecAdd(s.m_point, s.m_direction), s.m_point, q),
                       s.m_point)]
      [] OTHER -> s

\* the call f made on a shape: rotate(angle), or one of the calls of Transform
ShapeCall(f, s) ==
    IF f.name = "rotate(angle)" THEN RotateOwn(s, f.k) ELSE Transform(f, s)

\* an Image transform: the same call on every entry of components_, in order
RECURSIVE ImageCall(_, _, _)
ImageCall(h, comps, f) ==
    IF comps = <<>> THEN h
    ELSE ImageCall([h EXCEPT ![Head(comps)] = ShapeCall(f, @)], Tail(comps), f)

AlgebraCircle == Circle(<<200, 100>>, 100, Red)
AlgebraPolygon == Polygon(<<<<100, 100>>, <<300, 100>>, <<300, 200>>>>, Blue)
AlgebraLine == Line(<<-200, 300>>, <<100, -100>>, Orange)
AlgebraEllipse == Ellipse(<<600, 500>>, <<100, 50>>, Green)

AlgebraShapes == {AlgebraCircle, AlgebraPolygon, AlgebraLine, AlgebraEllipse}

AlgebraLists == UNION {[1..n -> AlgebraShapes] : n \in 0..MaxComponents}

Centres == {<<0, 0>>, <<100, 200>>}

Directions == {<<100, 0>>, <<100, 100>>}

AlgebraCalls ==
    {F("translate", v, <<>>, 0) : v \in {<<100, -200>>, <<-100, 200>>}}
    \cup {F("homothety", p, <<>>, k) : p \in Centres, k \in {2 * Scale, 0 - Scale}}
    \cup {F("rotate", p, <<>>, q) : p \in Centres, q \in {1, 2}}
    \cup {F("centralSym", p, <<>>, 0) : p \in Centres}
    \cup {F("axialSym", p, d, 0) : p \in Centres, d \in Directions}
    \cup {F("rotate(angle)", <<>>, <<>>, q) : q \in {1, 2}}

\* either a leaf shape a caller constructed, or an Image(Vec2(0, 0)) after
\* add_component of each shape of a list; source keeps the parameters the
\* object starts with and log the calls made on it
InitAlgebra ==
    /\ \/ /\ shape \in AlgebraShapes
          /\ heap = <<>>
          /\ components_ = <<>>
          /\ alive = FALSE
          /\ source = [shapes |-> <<shape>>, annotation |-> <<>>,
                       origin |-> <<0, 0>>, valid |-> TRUE]
       \/ /\ shape = NoShape
          /\ \E ss \in AlgebraLists :
                LET a == AddAll(<<>>, <<>>, <<0, 0>>, ss)
                IN  /\ heap = a.heap
                    /\ components_ = a.components_
          /\ alive = TRUE
          /\ source = [shapes |-> Shapes(heap, components_), annotation |-> <<>>,
                       origin |-> <<0, 0>>, valid |-> TRUE]
    /\ released = {}
    /\ annotation = <<>>
    /\ origin_ = <<0, 0>>
    /\ serial = <<>>
    /\ bb = NoBox
    /\ last = Call("new", <<>>, "returned", 0)
    /\ mutex = NoThread
    /\ pc = [t \in Threads |-> "idle"]
    /\ loc = [t \in Threads |-> NoLoc]
    /\ touch = [t \in Threads |-> {}]
    /\ log = <<>>
    /\ calls = 0

\* shape.translate(v), shape.homothety(p, ratio), ... on the leaf
LeafTransform(f) ==
    /\ ~alive
    /\ Len(log) < MaxTransforms
    /\ shape' = ShapeCall(f, shape)
    /\ log' = Append(log, f)
    /\ last' = Call(f.name, f, "returned", last.count + 1)
    /\ UNCHANGED <<bb, mutex, pc, loc, touch, calls>>
    /\ UNCHANGED imageVars

\* image.translate(v), image.homothety(p, ratio), ... on the Image
ImageTransform(f) ==
    /\ alive
    /\ Len(log) < MaxTransforms
    /\ heap' = ImageCall(heap, components_, f)
    /\ log' = Append(log, f)
    /\ last' = Call(f.name, f, "returned", last.count + 1)
    /\ bb' = NoBox
    /\ UNCHANGED <<shape, mutex, pc, loc, touch, calls>>
    /\ UNCHANGED <<released, components_, annotation, origin_, alive, serial, source>>

\* bb = image.bounding_box(), the box of the Image as it is now: a later
\* transform leaves the caller with a box of an earlier Image (NoBox)
ImageBoundingBox ==
    /\ alive
    /\ bb = NoBox
    /\ bb' = ImageBox(EmptyBox, Shapes(heap, components_))
    /\ UNCHANGED <<shape, last>>
    /\ UNCHANGED imageVars /\ UNCHANGED threadVars

NextAlgebra ==
    \/ \E f \in AlgebraCalls : LeafTransform(f)
    \/ \E f \in AlgebraCalls : ImageTransform(f)
    \/ ImageBoundingBox

SpecAlgebra == InitAlgebra /\ [][NextAlgebra]_vars


-----------------------------------------------------------------------------
(* Properties of SpecAlgebra                                                *)

\* the object the calls are made on, as a list of leaf shapes
Current == IF alive THEN Shapes(heap, components_) ELSE <<shape>>

SetMin(S) == CHOOSE m \in S : \A x \in S : m <= x

SetMax(S) == CHOOSE m \in S : \A x \in S : m >= x

\* the boxes the components return
ComponentBoxes == {bounding_box(Current[i]) : i \in 1..Len(Current)}

C11_WitnessEmpty == alive /\ bb # NoBox /\ components_ = <<>>


-----------------------------------------------------------------------------
(* Properties of the records of SpecRoundTrip                               *)

\* C12: the record serialize() writes for a Circle, a Polygon, a Line or an
\* Ellipse (floats of at most two decimals) is parsed by deserialize() into a
\* shape of the same variant with the same geometric fields and the same
\* colour channels (read into an Image whose origin is (0,0)).
C12_RecordRoundTrip ==
    [][(/\ last'.op = "deserialize"
        /\ source.valid
        /\ origin_ = <<0, 0>>)
       => /\ Len(components_') = Len(source.shapes)
          /\ \A i \in 1..Len(source.shapes) :
                /\ heap'[components_'[i]].m_type = source.shapes[i].m_type
                /\ heap'[components_'[i]].m_color = source.shapes[i].m_color
                /\ Positions(heap'[components_'[i]]) = Positions(source.shapes[i])
                /\ Others(heap'[components_'[i]]) = Others(source.shapes[i])]_vars

\* the records of a Polygon and of a Line with negative coordinates were
\* written and read back
C12_Witness ==
    /\ last.op = "deserialize"
    /\ source.valid
    /\ origin_ = <<0, 0>>
    /\ Len(source.shapes) = 2
    /\ source.shapes[1].m_type = POLYGON
    /\ source.shapes[2].m_type = LINE
    /\ Shapes(heap, components_) = source.shapes


-----------------------------------------------------------------------------
(* SpecNested: SpecRoundTrip on an Image whose components may be Images     *)

\* Image* in = new Image(o); in->add_component(...); in->annotate(a)
InnerImage(ss, a, o) ==
    Image(Shapes(AddAll(<<>>, <<>>, o, ss).heap, AddAll(<<>>, <<>>, o, ss).components_),
          a, o)

NestedImages ==
    {InnerImage(<<>>, <<>>, <<0, 0>>),
     InnerImage(<<InCircle>>, <<"h", "i">>, <<1000, 0>>),
     InnerImage(<<InLine, InEllipse>>, <<>>, <<1000, 0>>)}

NestedLists == UNION {[1..n -> ShapeInputs \cup NestedImages] : n \in 0..MaxComponents}

\* an Image(o) after add_component of each shape or Image of a list and
\* annotate(msg)
InitNested ==
    /\ origin_ \in Origins
    /\ \E ss \in NestedLists :
          /\ heap = AddAll(<<>>, <<>>, origin_, ss).heap
          /\ components_ = AddAll(<<>>, <<>>, origin_, ss).components_
    /\ annotation \in Annotations
    /\ released = {}
    /\ alive = TRUE
    /\ serial = <<>>
    /\ source = NoSource
    /\ last = Call("annotate", annotation, "returned", 0)
    /\ ThreadsIdle
    /\ ShapeUnused

SpecNested == InitNested /\ [][NextRoundTrip]_vars

\* the positions of text at which the word w starts
Occurrences(text, w) ==
    {i \in 1..Len(text) :
        /\ i + Len(w) - 1 <= Len(text)
        /\ SubSeq(text, i, i + Len(w) - 1) = w}

\* C13: what Image::serialize appends is the serialized form of each
\* component, in list order, followed by exactly one annotation clause, which
\* ends the output: the keyword `annotation` occurs once, in the clause of
\* the Image's own annotation at the end of the text. Holds for every
\* component list, a list holding an Image included.
C13_SerializeOneAnnotationLast ==
    (source.valid /\ last.op = "serialize") =>
        /\ serial = SerializeAll(source.shapes) \o AnnotationClause(source.annotation)
        /\ Occurrences(serial, kwAnnotation) =
              {Len(serial) - Len(AnnotationClause(source.annotation)) + 2}


\* C14: translate(v) adds v to every positional parameter (circle and ellipse
\* centre, every polygon vertex, the point of a line) and changes nothing
\* else; translate(v) followed by translate(-v) restores the parameters the
\* object started with. For every variant and for an Image (each component),
\* over integer coordinates.
C14_Translate ==
    /\ [][(last'.op = "translate" /\ last' # last)
          => /\ Len(Current') = Len(Current)
             /\ \A i \in 1..Len(Current) : MovedBy(Current[i], Current'[i], last'.arg.p)]_vars
    /\ [](  (/\ Len(log) = 2
             /\ log[1].name = "translate" /\ log[2].name = "translate"
             /\ log[2].p = VecSub(<<0, 0>>, log[1].p))
          => Current = source.shapes)

\* an Image of a Polygon and a Line after translate(v), translate(-v)
C14_Witness ==
    /\ alive
    /\ Len(log) = 2
    /\ log[1].name = "translate" /\ log[2].name = "translate"
    /\ log[2].p = VecSub(<<0, 0>>, log[1].p)
    /\ Len(components_) = 2
    /\ heap[components_[1]].m_type = POLYGON
    /\ heap[components_[2]].m_type = LINE


\* C15: centralSym(p) applied twice with the same p restores the parameters
\* the object started with, for every variant, every Image and every p.
C15_CentralSymInvolution ==
    (/\ Len(log) = 2
     /\ log[1].name = "centralSym" /\ log[2] = log[1])
    => Current = source.shapes

\* an Image of a Line and an Ellipse after centralSym(p) twice, p off (0,0)
C15_Witness ==
    /\ alive
    /\ Len(log) = 2
    /\ log[1].name = "centralSym" /\ log[2] = log[1]
    /\ log[1].p # <<0, 0>>
    /\ Len(components_) = 2
    /\ heap[components_[1]].m_type = LINE
    /\ heap[components_[2]].m_type = ELLIPSE


\* the points that define a shape: the centre of a circle or an ellipse, the
\* vertices of a polygon, the two endpoints of a line
DefiningPoints(s) ==
    CASE s.m_type = CIRCLE -> <<s.m_origin>>
      [] s.m_type = POLYGON -> s.m_points
      [] s.m_type = LINE -> <<s.m_point, VecAdd(s.m_point, s.m_direction)>>
      [] OTHER -> <<s.m_origin>>

\* the radii of a shape
Radii(s) ==
    CASE s.m_type = CIRCLE -> <<s.m_radius>>
      [] s.m_type = ELLIPSE -> <<s.m_radius[1], s.m_radius[2]>>
      [] OTHER -> <<>>

\* the call that led to this state, and the shapes before and after it
Called(name) == last'.op = name /\ last' # last

\* C16: centralSym(p) and homothety(p, -1), applied to equal shapes, give equal
\* parameters (positions, radii, and for a Line the point and the direction),
\* for every variant and every p.
C16_CentralSymIsHomothety ==
    (Len(log) = 1 /\ log[1].name = "centralSym")
    => Current = [i \in 1..Len(source.shapes) |->
                    ShapeCall(F("homothety", log[1].p, <<>>, 0 - Scale), source.shapes[i])]

\* p + ratio * (M - p), ratio in hundredths
ScaledAbout(m, p, ratio) ==
    <<p[1] + (ratio * (m[1] - p[1])) \div Scale, p[2] + (ratio * (m[2] - p[2])) \div Scale>>

\* C17: homothety(p, ratio) moves each defining point M of every variant
\* (circle and ellipse centre, polygon vertices, both endpoints of a line) to
\* p + ratio * (M - p) and multiplies the radii by ratio; negative ratios are
\* accepted.
C17_Homothety ==
    [][Called("homothety")
       => \A i \in 1..Len(Current) :
             /\ DefiningPoints(Current'[i]) =
                   [j \in 1..Len(DefiningPoints(Current[i])) |->
                      ScaledAbout(DefiningPoints(Current[i])[j], last'.arg.p, last'.arg.k)]
             /\ Radii(Current'[i]) =
                   [j \in 1..Len(Radii(Current[i])) |->
                      (last'.arg.k * Radii(Current[i])[j]) \div Scale]]_vars

\* the image of M under the rotation of q quarter turns about p
QuarterTurns(m, p, q) ==
    CASE q % 4 = 0 -> m
      [] q % 4 = 1 -> <<p[1] - (m[2] - p[2]), p[2] + (m[1] - p[1])>>
      [] q % 4 = 2 -> <<p[1] - (m[1] - p[1]), p[2] - (m[2] - p[2])>>
      [] OTHER -> <<p[1] + (m[2] - p[2]), p[2] - (m[1] - p[1])>>

\* C18: rotate(p, angle), angle a number of quarter turns, moves each defining
\* point of every variant (circle centre, ellipse centre, polygon vertices,
\* both endpoints of a line) to its image under the rotation of that angle
\* about p; Image::rotate(p, angle) does so to every component.
C18_RotateAbout ==
    [][Called("rotate")
       => \A i \in 1..Len(Current) :
             DefiningPoints(Current'[i]) =
                [j \in 1..Len(DefiningPoints(Current[i])) |->
                   QuarterTurns(DefiningPoints(Current[i])[j], last'.arg.p, last'.arg.k)]]_vars

\* twice the centre of the box bounding_box() returns
BoxCentre2(s) ==
    <<bounding_box(s).x_min + bounding_box(s).x_max,
      bounding_box(s).y_min + bounding_box(s).y_max>>

\* C19: rotate(angle) rotates about the centre of the shape's bounding box: a
\* Circle and an Ellipse are left as they are, and the centre of a Polygon's
\* bounding box stays where it was (after a half-turn, the whole box).
C19_RotateOwnCentre ==
    [][Called("rotate(angle)")
       => \A i \in 1..Len(Current) :
             /\ Current[i].m_type \in {CIRCLE, ELLIPSE} => Current'[i] = Current[i]
             /\ Current[i].m_type = POLYGON =>
                   /\ BoxCentre2(Current'[i]) = BoxCentre2(Current[i])
                   /\ last'.arg.k = 2 =>
                         bounding_box(Current'[i]) = bounding_box(Current[i])]_vars

\* M + 2 * (I - M), I the projection of M on the line through p directed by d
Reflected(m, p, d) ==
    <<p[1] - (m[1] - p[1])
        + (2 * ((m[1] - p[1]) * d[1] + (m[2] - p[2]) * d[2]) * d[1]) \div (d[1] * d[1] + d[2] * d[2]),
      p[2] - (m[2] - p[2])
        + (2 * ((m[1] - p[1]) * d[1] + (m[2] - p[2]) * d[2]) * d[2]) \div (d[1] * d[1] + d[2] * d[2])>>

\* C20: axialSym(p, d), d nonzero, moves each defining point M of every
\* variant (circle and ellipse centre, polygon vertices, both endpoints of a
\* line) to M + 2 * (I - M), I the projection of M on the line through p
\* directed by d; and axialSym(p, d) applied twice restores the shape.
C20_AxialSym ==
    /\ [][Called("axialSym")
          => \A i \in 1..Len(Current) :
                DefiningPoints(Current'[i]) =
                   [j \in 1..Len(DefiningPoints(Current[i])) |->
                      Reflected(DefiningPoints(Current[i])[j], last'.arg.p, last'.arg.d)]]_vars
    /\ []((Len(log) = 2 /\ log[1].name = "axialSym" /\ log[2] = log[1])
          => Current = source.shapes)


-----------------------------------------------------------------------------
(* display, area and perimeter                                              *)

MaxQueries == 2   \* display, area and perimeter calls made in one behaviour

\* the greatest r with r * r <= n
RECURSIVE ISqrtIn(_, _, _)
ISqrtIn(n, lo, hi) ==
    IF lo >= hi THEN lo
    ELSE IF ((lo + hi + 1) \div 2) * ((lo + hi + 1) \div 2) <= n
         THEN ISqrtIn(n, (lo + hi + 1) \div 2, hi)
         ELSE ISqrtIn(n, lo, ((lo + hi + 1) \div 2) - 1)

ISqrt(n) == ISqrtIn(n, 0, IF n < 46340 THEN n ELSE 46340)

\* norm(v) * norm(v) of a vector of whole coordinates
NormSquared(x, y) == x * x + y * y

\* Image::display(renderer), lines 1190-1212: im_w = (int)(n * 2), n the
\* greater of norm(center - (x_max, y_max)) and norm(center - (x_min, y_min))
\* once center is added to the box, that is of norm(x_max, y_max) and
\* norm(x_min, y_min); (int)(2 * sqrt(S)) is the integer square root of 4 * S
ImageSizeOf(n1, n2) == ISqrt(4 * (IF n1 > n2 THEN n1 ELSE n2))

ImageSize(b) ==
    ImageSizeOf(NormSquared(b.x_max, b.y_max), NormSquared(b.x_min, b.y_min))

\* Image::display(renderer), lines 1214-1228: w_ratio = (float) w / im_w,
\* h_ratio = (float) h / im_h with im_h = im_w, final_ratio.  A division by
\* im_w = 0 gives +inf or NaN, which is not < 1.f
FinalRatio(w, h, im_w) ==
    IF im_w > 0 /\ (w < im_w \/ h < im_w)
    THEN IF w <= h THEN FDiv(ToFloat(w), ToFloat(im_w))
                   ELSE FDiv(ToFloat(h), ToFloat(im_w))
    ELSE Scale

\* what one display call of a leaf shape did: the shape whose pixels it drew,
\* the ratio it was called with, and how deep in the recursion it drew
Drawn(s, ratio, depth) == [shape |-> s, ratio |-> ratio, depth |-> depth]

DisplayInPlace(h, this, ratio, depth) ==
    IF ratio # Scale
    THEN [heap |-> [h EXCEPT ![this] = Homothety(@, <<0, 0>>, ratio)],
          drawn |-> Drawn(Homothety(h[this], <<0, 0>>, ratio), ratio, depth + 1)]
    ELSE [heap |-> h, drawn |-> Drawn(h[this], ratio, depth)]

\* Circle::display, Polygon::display, Line::display, Ellipse::display
\* (renderer, ratio) on the shape at this: with ratio != 1.f, c = new copy of
\* *this, c->homothety(Vec2(0, 0), ratio), c->display(renderer, 1.f),
\* delete c; else the pixels of *this are drawn
RECURSIVE Display(_, _, _, _)
Display(h, this, ratio, depth) ==
    IF ratio # Scale
    THEN [heap |-> SubSeq(Display([Append(h, h[this]) EXCEPT
                                     ![Len(h) + 1] = Homothety(@, <<0, 0>>, ratio)],
                                  Len(h) + 1, Scale, depth + 1).heap, 1, Len(h)),
          drawn |-> [Display([Append(h, h[this]) EXCEPT
                                ![Len(h) + 1] = Homothety(@, <<0, 0>>, ratio)],
                             Len(h) + 1, Scale, depth + 1).drawn EXCEPT !.ratio = ratio]]
    ELSE [heap |-> h, drawn |-> Drawn(h[this], ratio, depth)]

\* Image::display(renderer, ratio): component->display(renderer, ratio) for
\* every entry of components_, in order
RECURSIVE DisplayAll(_, _, _, _)
DisplayAll(h, comps, ratio, drawn) ==
    IF comps = <<>> THEN [heap |-> h, drawn |-> drawn]
    ELSE DisplayAll(Display(h, Head(comps), ratio, 0).heap, Tail(comps), ratio,
                    Append(drawn, Display(h, Head(comps), ratio, 0).drawn))

\* Image::display(renderer) with an output of w x h pixels: final_ratio
FitRatio(h, comps, w, ht) ==
    FinalRatio(w, ht, ImageSize(ImageBox(EmptyBox, Shapes(h, comps))))

\* Image::display(renderer): the loop over components_, lines 1230-1234
DisplayFit(h, comps, w, ht) == DisplayAll(h, comps, FitRatio(h, comps, w, ht), <<>>)

\* Image::area, lines 1031-1033, the box bb given: (float) w * h, a whole
\* number, kept in units
ImageArea(b) == (b.x_max - b.x_min) * (b.y_max - b.y_min)

\* Image::perimeter, lines 1042-1044: 2.f * (w + h), a whole number, kept in
\* units
ImagePerimeter(b) == 2 * ((b.x_max - b.x_min) + (b.y_max - b.y_min))

\* the sizes SDL_GetRendererOutputSize reports
OutputSizes == {<<8, 6>>, <<4, 4>>, <<40, 30>>, <<0, 0>>}

\* the ratios callers pass to display(renderer, ratio)
Ratios == {Scale, Scale \div 2, 2 * Scale}

\* shape.display(renderer, ratio) on the leaf
LeafDisplay(ratio) ==
    /\ ~alive
    /\ last.count < MaxQueries
    /\ shape' = Display(<<shape>>, 1, ratio, 0).heap[1]
    /\ last' = Call("display(ratio)", ratio,
                    <<Display(<<shape>>, 1, ratio, 0).drawn>>, last.count + 1)
    /\ UNCHANGED <<bb, mutex, pc, loc, touch, log, calls>>
    /\ UNCHANGED imageVars

\* image.display(renderer, ratio)
ImageDisplayRatio(ratio) ==
    /\ alive
    /\ last.count < MaxQueries
    /\ heap' = DisplayAll(heap, components_, ratio, <<>>).heap
    /\ last' = Call("display(ratio)", ratio,
                    DisplayAll(heap, components_, ratio, <<>>).drawn, last.count + 1)
    /\ UNCHANGED <<shape, bb, mutex, pc, loc, touch, log, calls>>
    /\ UNCHANGED <<released, components_, annotation, origin_, alive, serial, source>>

\* image.display(renderer), the renderer's output w x h pixels
ImageDisplay(w, h) ==
    /\ alive
    /\ last.count < MaxQueries
    /\ heap' = DisplayFit(heap, components_, w, h).heap
    /\ bb' = ImageBox(EmptyBox, Shapes(heap, components_))
    /\ last' = Call("display", <<w, h>>,
                    [ratio |-> FitRatio(heap, components_, w, h),
                     drawn |-> DisplayFit(heap, components_, w, h).drawn],
                    last.count + 1)
    /\ UNCHANGED <<shape, mutex, pc, loc, touch, log, calls>>
    /\ UNCHANGED <<released, components_, annotation, origin_, alive, serial, source>>

\* image.area()
Area ==
    /\ alive
    /\ last.count < MaxQueries
    /\ bb' = ImageBox(EmptyBox, Shapes(heap, components_))
    /\ last' = Call("area", <<>>, ImageArea(bb'), last.count + 1)
    /\ UNCHANGED shape
    /\ UNCHANGED imageVars /\ UNCHANGED threadVars

\* image.perimeter()
Perimeter ==
    /\ alive
    /\ last.count < MaxQueries
    /\ bb' = ImageBox(EmptyBox, Shapes(heap, components_))
    /\ last' = Call("perimeter", <<>>, ImagePerimeter(bb'), last.count + 1)
    /\ UNCHANGED shape
    /\ UNCHANGED imageVars /\ UNCHANGED threadVars

NextQueries ==
    \/ \E ratio \in Ratios : LeafDisplay(ratio)
    \/ \E ratio \in Ratios : ImageDisplayRatio(ratio)
    \/ \E size \in OutputSizes : ImageDisplay(size[1], size[2])
    \/ Area
    \/ Perimeter

SpecQueries == InitAlgebra /\ [][NextQueries]_vars


-----------------------------------------------------------------------------
(* Properties of SpecQueries                                                *)

\* the box b, moved to the centre of an output of w x h pixels, lies inside
\* the output
Fits(b, w, h) ==
    /\ b.x_min <= b.x_max /\ b.y_min <= b.y_max
    /\ 0 <= b.x_min + w \div 2 /\ b.x_max + w \div 2 <= w
    /\ 0 <= b.y_min + h \div 2 /\ b.y_max + h \div 2 <= h

\* C21: Image::display(renderer) computes one fit ratio, never greater than
\* 1.0 whatever the output size and the box; exactly 1.0 when the box already
\* fits the output; and passes it to display of every component, in list
\* order.
C21_DisplayFitRatio ==
    last.op = "display" =>
        /\ last.outcome.ratio <= Scale
        /\ Fits(bb, last.arg[1], last.arg[2]) => last.outcome.ratio = Scale
        /\ Len(last.outcome.drawn) = Len(components_)
        /\ \A i \in 1..Len(components_) :
              /\ last.outcome.drawn[i].ratio = last.outcome.ratio
              /\ last.outcome.drawn[i].shape.m_type = heap[components_[i]].m_type
              /\ last.outcome.drawn[i].shape.m_color = heap[components_[i]].m_color

\* C22: Image::area() is width * height and Image::perimeter() is
\* 2 * (width + height) of the box Image::bounding_box() returns, not a sum
\* over the members; for every Image, the empty one included, the two values
\* are not negative.
C22_AreaPerimeterOfBox ==
    /\ last.op = "area" =>
          /\ last.outcome = (bb.x_max - bb.x_min) * (bb.y_max - bb.y_min)
          /\ bb = ImageBox(EmptyBox, Shapes(heap, components_))
          /\ last.outcome >= 0
    /\ last.op = "perimeter" =>
          /\ last.outcome = 2 * (bb.x_max - bb.x_min) + 2 * (bb.y_max - bb.y_min)
          /\ bb = ImageBox(EmptyBox, Shapes(heap, components_))
          /\ last.outcome >= 0

\* what the display calls of the last call drew, in order
DrawnBy(c) ==
    CASE c.op = "display" -> c.outcome.drawn
      [] c.op = "display(ratio)" -> c.outcome
      [] OTHER -> <<>>

\* C30: displaying never changes a shape: display(renderer, ratio) of a
\* Circle, a Polygon, a Line or an Ellipse with ratio != 1 scales a copy and
\* draws the copy through one nested display(renderer, 1) call (depth 1 at
\* most), so after any sequence of display calls, Image::display included,
\* every parameter of every shape is what it was.
C30_DisplayChangesNothing ==
    /\ Current = source.shapes
    /\ \A i \in 1..Len(DrawnBy(last)) :
          /\ DrawnBy(last)[i].depth = IF DrawnBy(last)[i].ratio # Scale THEN 1 ELSE 0
          /\ DrawnBy(last)[i].shape =
                IF DrawnBy(last)[i].ratio # Scale
                THEN Homothety(source.shapes[i], <<0, 0>>, DrawnBy(last)[i].ratio)
                ELSE source.shapes[i]

\* an Image of a Circle and a Polygon after display(renderer), area() or
\* perimeter(), and then display(renderer, 0.5)
C30_Witness ==
    /\ alive
    /\ last.op = "display(ratio)" /\ last.arg = Scale \div 2 /\ last.count = 2
    /\ bb # NoBox
    /\ Len(components_) = 2
    /\ heap[components_[1]].m_type = CIRCLE
    /\ heap[components_[2]].m_type = POLYGON
    /\ last.outcome[2].depth = 1


-----------------------------------------------------------------------------
(* SpecLive: threads calling the operations that make nested calls, under   *)
(* fair scheduling                                                          *)

MaxLiveCalls == 2   \* calls made by all threads together in SpecLive

Queries == {"area", "perimeter", "display"}

CallQueryLocked(t, op) ==
    /\ Begin(t, "lock", [NoLoc EXCEPT !.op = op, !.body = "lock", !.ret = "boxed",
                                      !.acc = EmptyBox, !.arg = <<8, 6>>])
    /\ UNCHANGED <<heap, components_, annotation, origin_, mutex, log>>
    /\ UNCHANGED otherVars

\* area(), perimeter(), display(renderer): BoundingBox bb = bounding_box()
\* comes first, a call that takes and gives back the mutex
CallQuery(t, op) ==
    /\ Begin(t, "lock", [NoLoc EXCEPT !.op = op, !.body = "bounding_box", !.ret = "boxed",
                                      !.acc = EmptyBox, !.arg = <<8, 6>>])
    /\ UNCHANGED <<heap, components_, annotation, origin_, mutex, log>>
    /\ UNCHANGED otherVars

\* bounding_box() has returned: std::lock_guard<std::mutex> guard(mutex)
QueryBoxed(t) ==
    /\ pc[t] = "boxed"
    /\ loc' = [loc EXCEPT ![t].body = "query", ![t].ret = "idle", ![t].it = 0]
    /\ Goto(t, "lock")
    /\ Touch(t, {})
    /\ UNCHANGED <<heap, components_, annotation, origin_, mutex, log, calls>>
    /\ UNCHANGED otherVars

\* the rest of area(), perimeter() or display(renderer), the mutex held
BodyQuery(t) ==
    /\ pc[t] = "query"
    /\ loc' = [loc EXCEPT ![t].msg =
                 CASE loc[t].op = "area" -> <<ImageArea(loc[t].acc)>>
                   [] loc[t].op = "perimeter" -> <<ImagePerimeter(loc[t].acc)>>
                   [] OTHER -> <<FinalRatio(loc[t].arg[1], loc[t].arg[2], ImageSize(loc[t].acc))>>]
    /\ Goto(t, "unlock")
    /\ Touch(t, IF loc[t].op = "display" THEN {"components_"} ELSE {})
    /\ UNCHANGED <<heap, components_, annotation, origin_, mutex, log, calls>>
    /\ UNCHANGED otherVars

\* the turns of the loop of deserialize(s) that end in a call of
\* add_component or annotate, in order, then the turn that leaves the loop
RECURSIVE DeserializeCallsFrom(_, _, _)
DeserializeCallsAt(s, d) ==
    CASE d.kind \in {"exit", "throw"} -> <<d>>
      [] d.kind \in {"add", "annotate"} -> <<d>> \o DeserializeCallsFrom(s, d.st, d.word)
      [] OTHER -> DeserializeCallsFrom(s, d.st, d.word)

DeserializeCallsFrom(s, st, word) == DeserializeCallsAt(s, DeserializeStep(s, st, word))

DeserializeCalls == [s \in ThreadStreams |-> DeserializeCallsFrom(s, StreamOpen, <<>>)]

\* the loop of deserialize up to its next call of add_component or annotate,
\* which waits for the mutex (loc[t].end counts the calls made so far)
DeserializeNextCall(t, d) ==
    /\ pc[t] = "parse"
    /\ CASE d.kind = "add" ->
              /\ heap' = Append(heap, d.shape)
              /\ loc' = [loc EXCEPT ![t].st = d.st, ![t].word = d.word, ![t].end = @ + 1,
                                    ![t].body = "add", ![t].ptr = Len(heap) + 1]
              /\ Goto(t, "lock")
         [] d.kind = "annotate" ->
              /\ loc' = [loc EXCEPT ![t].st = d.st, ![t].word = d.word, ![t].end = @ + 1,
                                    ![t].body = "annotate", ![t].msg = d.text]
              /\ Goto(t, "lock")
              /\ UNCHANGED heap
         [] OTHER ->
              /\ loc' = [loc EXCEPT ![t].st = d.st, ![t].word = d.word, ![t].msg = <<d.kind>>]
              /\ Goto(t, "idle")
              /\ UNCHANGED heap
    /\ Touch(t, {})
    /\ UNCHANGED <<components_, annotation, origin_, mutex, log, calls>>
    /\ UNCHANGED otherVars

DeserializeCall(t) ==
    /\ pc[t] = "parse"
    /\ DeserializeNextCall(t, DeserializeCalls[loc[t].arg][loc[t].end + 1])

\* the steps a thread takes inside a call
Step_(t) ==
    \/ Lock(t)
    \/ Unlock(t)
    \/ LoopTransform(t)
    \/ LoopBox(t)
    \/ BodyAdd(t)
    \/ BodyPushBack(t)
    \/ BodyAnnotate(t)
    \/ SetOriginRead(t)
    \/ SetOriginX(t)
    \/ SetOriginY(t)
    \/ DeserializeClearStep(t)
    \/ DeserializeCall(t)
    \/ QueryBoxed(t)
    \/ BodyQuery(t)

NextLive ==
    \E t \in Threads :
        \/ /\ calls < MaxLiveCalls
           /\ \/ \E op \in Queries : CallQuery(t, op)
              \/ \E o \in ThreadOrigins : CallSetOrigin(t, o)
              \/ \E s \in ThreadStreams : CallDeserialize(t, s)
        \/ Step_(t)

\* every thread that is inside a call keeps being scheduled
SpecLive ==
    /\ InitThreads
    /\ [][NextLive]_vars
    /\ \A t \in Threads : WF_vars(Step_(t))

\* C23: no Image operation takes the mutex while the calling thread holds
\* it (area, perimeter and display(renderer) call bounding_box() before they
\* lock; the origin setter calls translate(), and deserialize calls
\* add_component() and annotate(), without holding it): under fair
\* scheduling every call by every thread returns.
C23_EveryCallReturns ==
    /\ [](\A t \in Threads : pc[t] = "lock" => mutex # t)
    /\ \A t \in Threads : (pc[t] # "idle") ~> (pc[t] = "idle")

\* both threads are inside a call, one of them area() waiting for the mutex
\* the other holds
C23_Witness ==
    /\ pc["t1"] = "lock" /\ loc["t1"].op = "area" /\ loc["t1"].body = "query"
    /\ mutex = "t2"


-----------------------------------------------------------------------------
(* SpecOrigin: two threads, each making one call of origin(new_origin) or   *)
(* add_component(s) on the shared Image                                     *)

\* the origins the threads pass to origin(new_origin)
SetterOrigins == {<<1000, 500>>, <<500, 0>>}

NextOrigin ==
    \E t \in Threads :
        \/ /\ loc[t].op = "none"
           /\ \/ \E o \in SetterOrigins : CallSetOrigin(t, o)
              \/ \E s \in ThreadAdded : CallAdd(t, s)
        \/ SetOriginRead(t)
        \/ Lock(t)
        \/ LoopTransform(t)
        \/ BodyAdd(t)
        \/ BodyPushBack(t)
        \/ Unlock(t)
        \/ SetOriginX(t)
        \/ SetOriginY(t)

SpecOrigin == InitThreads /\ [][NextOrigin]_vars

\* the Image the threads start from
ThreadImage == [shapes |-> ThreadShapes, origin |-> <<0, 0>>]

\* the Images a call with locals l, run alone from start to end, can leave
SerialAfter(s, l) ==
    CASE l.op = "set_origin" ->
            {[shapes |-> [i \in 1..Len(s.shapes) |->
                            Translate(s.shapes[i], SetOriginVector(s.origin, l.arg))],
              origin |-> l.arg]}
      [] l.op = "add_component" ->
            {[shapes |-> Append(s.shapes, Translate(a, s.origin)), origin |-> s.origin] :
                a \in ThreadAdded}
      [] OTHER -> {s}

\* the Images left by the calls of thread a, then those of thread b
SerialOrder(a, b) ==
    UNION {SerialAfter(m, loc[b]) : m \in SerialAfter(ThreadImage, loc[a])}

\* C24: the origin setter is atomic with respect to the other calls: when
\* origin(n1), origin(n2) and add_component(s) calls made by different
\* threads have all returned, the component positions and the stored origin
\* are those some serial order of the calls leaves.
C24_OriginSetterAtomic ==
    (\A t \in Threads : pc[t] = "idle")
        => [shapes |-> Shapes(heap, components_), origin |-> origin_]
              \in SerialOrder("t1", "t2") \cup SerialOrder("t2", "t1")


-----------------------------------------------------------------------------
(* SpecText: deserialize of texts that no serialize call produced: records  *)
(* cut short by the end of the text, records with a non-numeric token, and  *)
(* annotation clauses with any byte_length token                            *)

MaxTexts == 2   \* deserialize calls made on the Image in SpecText

\* the position after the first k tokens of s, from position p on
RECURSIVE CutPos(_, _, _)
CutPos(s, p, k) ==
    IF k = 0 THEN p ELSE CutPos(s, WordEnd(s, SkipSpace(s, p)), k - 1)

\* the first k tokens of s
Cut(s, k) == SubSeq(s, 1, CutPos(s, 1, k) - 1)

\* circle 1 2
CircleOneTwo == Word(kwCircle) \o Word(<<"1">>) \o Word(<<"2">>)

\* one record that ends before its last field: the keyword and at most five
\* of the six or more tokens that follow it
TruncatedStreams ==
    {Cut(SerializeShape(sh), k) : sh \in ShapeInputs, k \in 1..6} \cup {CircleOneTwo}

\* a text longer than the buffer of the annotation branch
LongText == [i \in 1..(BufferSize + 76) |-> "a"]

\* the byte_length tokens: not a number, negative, the length of the text
\* "hi", the greatest length the buffer has room for, and greater ones
ByteLengths ==
    {<<"x">>, <<"-", "5">>, <<"2">>, <<"1", "0", "2", "2">>, <<"1", "0", "2", "3">>,
     <<"2", "0", "0", "0">>}

AnnotationStreams ==
    {Word(kwAnnotation) \o Word(n) \o Sp \o a : n \in ByteLengths, a \in {<<"h", "i">>, LongText}}

\* the texts without an annotation clause
NoClauseStreams == TruncatedStreams \cup CorruptStreams \cup PlainStreams

TextStreams == NoClauseStreams \cup AnnotationStreams

ParsedText == [s \in TextStreams |-> Parse(s)]

\* deserialize(s) of one of the texts
DeserializeText(s) ==
    /\ last.count < MaxTexts
    /\ Deserialize(s)

NextText == \E s \in TextStreams : DeserializeText(s)

\* an Image holding a Circle and a Polygon, annotated "hi"
SpecText == InitThreads /\ [][NextText]_vars

-----------------------------------------------------------------------------
(* SpecLoop: deserialize of the same texts, one turn of its outer loop      *)
(* after the other, under fair scheduling                                   *)

MaxTurns == 8   \* most turns of the outer loop followed in one call

\* the turns for (int i = 0; i < nb_pts; i++) makes when no conversion throws
PolygonLoopTurns(nb_pts) == (Len(PolygonFields(nb_pts)) - 3) \div 2

\* the turns of the point loop that began, f the fields the try block read
PointsRun(f, turns) ==
    IF f.threw /\ Len(f.vals) \div 2 < turns THEN Len(f.vals) \div 2 + 1 ELSE turns

NoPoints == [declared |-> 0, run |-> 0]

\* case Shape::POLYGON: the count the record declares and the turns of the
\* point loop, n the result of reading nb_pts
PolygonTurns(s, n) ==
    IF n.threw THEN NoPoints
    ELSE [declared |-> IF n.vals[1] > 0 THEN n.vals[1] ELSE 0,
          run |-> PointsRun(PolygonRead(s, n, n.vals[1]), PolygonLoopTurns(n.vals[1]))]

TurnPoints(s, r) ==
    IF ~r.st.fail /\ ShapeStringToEnum(r.word) = POLYGON
    THEN PolygonTurns(s, FieldsOf(s, r, <<"i">>))
    ELSE NoPoints

\* one turn of the outer loop: what DeserializeStep found, and the point loop
Turn(d, c) ==
    [kind |-> d.kind, st |-> d.st, word |-> d.word, shape |-> d.shape, text |-> d.text,
     declared |-> c.declared, run |-> c.run]

\* the turns of the outer loop on the text s, from the stream state st on,
\* up to the turn that leaves deserialize; at most left more turns are
\* followed
RECURSIVE DeserializeTurnsFrom(_, _, _, _)
DeserializeTurnsAt(s, d, c, left) ==
    IF d.kind \in {"exit", "throw"} \/ left = 0
    THEN <<Turn(d, c)>>
    ELSE <<Turn(d, c)>> \o DeserializeTurnsFrom(s, d.st, d.word, left - 1)

DeserializeTurnsFrom(s, st, word, left) ==
    DeserializeTurnsAt(s, DeserializeStep(s, st, word), TurnPoints(s, ReadWord(s, st, word)), left)

DeserializeTurns == [s \in TextStreams |-> DeserializeTurnsFrom(s, StreamOpen, <<>>, MaxTurns)]

\* the tokens of s from position p on
RECURSIVE TokensFrom(_, _)
TokensFrom(s, p) ==
    IF SkipSpace(s, p) > Len(s) THEN 0 ELSE 1 + TokensFrom(s, WordEnd(s, SkipSpace(s, p)))

TokenCount == [s \in TextStreams |-> TokensFrom(s, 1)]

\* the thread that calls deserialize
LoopThread == "t1"

\* deserialize(s): components_.clear(); std::istringstream buf(s)
CallDeserializeLoop(t, s) ==
    /\ calls < MaxTexts
    /\ Begin(t, "loop", [NoLoc EXCEPT !.op = "deserialize", !.arg = s])
    /\ components_' = DeserializeClear(components_)
    /\ UNCHANGED <<heap, annotation, origin_, mutex, log>>
    /\ UNCHANGED otherVars

\* one turn of for (std::string word; buf >> word;): loc[t].it counts the
\* turns, loc[t].end the turns of the point loop, loc[t].ptr the point counts
\* the polygon records declared
LoopTurnOf(t, d) ==
    /\ loc' = [loc EXCEPT ![t].st = d.st, ![t].word = d.word, ![t].msg = <<d.kind>>,
                          ![t].it = @ + 1, ![t].end = @ + d.run, ![t].ptr = @ + d.declared]
    /\ Goto(t, IF d.kind \in {"exit", "throw"} THEN "idle" ELSE "loop")
    /\ IF d.kind = "add"
       THEN /\ heap' = add_component(Append(heap, d.shape), components_, origin_,
                                     Len(heap) + 1).heap
            /\ components_' = Append(components_, Len(heap) + 1)
       ELSE UNCHANGED <<heap, components_>>
    /\ annotation' = IF d.kind = "annotate" THEN d.text ELSE annotation
    /\ Touch(t, {})
    /\ UNCHANGED <<origin_, mutex, log, calls>>
    /\ UNCHANGED otherVars

LoopTurn(t) ==
    /\ pc[t] = "loop"
    /\ loc[t].it < Len(DeserializeTurns[loc[t].arg])
    /\ LoopTurnOf(t, DeserializeTurns[loc[t].arg][loc[t].it + 1])

NextLoop ==
    \/ \E s \in TextStreams : CallDeserializeLoop(LoopThread, s)
    \/ LoopTurn(LoopThread)

\* the thread inside deserialize keeps running
SpecLoop == InitThreads /\ [][NextLoop]_vars /\ WF_vars(LoopTurn(LoopThread))

-----------------------------------------------------------------------------
(* Properties of deserialize *)

\* every shape of a list moved by v
AllMoved(ss, v) == [i \in 1..Len(ss) |-> Translate(ss[i], v)]

\* C25: deserialize stores every parsed shape through add_component, so
\* serialize() followed by deserialize() of that text on the same Image,
\* whose origin is o, leaves every component moved by o: the positions are
\* what they were only when o = (0,0).
C25_RoundTripShiftsByOrigin ==
    [][(last.op = "serialize" /\ last'.op = "deserialize" /\ last'.arg = serial)
       => /\ Shapes(heap', components_') = AllMoved(Shapes(heap, components_), origin_)
          /\ origin_ = <<0, 0>> => Shapes(heap', components_') = Shapes(heap, components_)
          /\ (origin_ # <<0, 0>> /\ components_ # <<>>)
                => \A i \in 1..Len(components_) :
                      heap'[components_'[i]] # heap[components_[i]]]_vars

\* an Image with origin (10,0) holding two components has serialized itself
\* and deserialized the text: the first component stands 10 further right
C25_Witness ==
    /\ last.op = "deserialize" /\ last.arg = serial /\ last.count = 2
    /\ source.valid /\ source.origin = origin_
    /\ origin_ = <<1000, 0>>
    /\ Len(components_) = 2
    /\ heap[components_[1]] = Translate(source.shapes[1], <<1000, 0>>)

\* C26: a record cut short by the end of the input adds no component:
\* deserialize appends a shape only when every field of the record was read
\* from a token of its own.
C26_TruncatedRecordAddsNothing ==
    [][(last'.op = "deserialize" /\ last'.arg \in TruncatedStreams)
       => /\ last'.outcome = "returned"
          /\ components_' = <<>>]_vars

\* C27: deserialize changes the annotation only through an annotation
\* clause: a text without one, also one holding a shape record with a
\* corrupted numeric token, leaves the annotation as it was.
C27_AnnotationOnlyByClause ==
    [][(last'.op = "deserialize" /\ last'.arg \in NoClauseStreams)
       => annotation' = annotation]_vars

\* C28: the annotation branch stores at most 1024 bytes, terminator included,
\* in its buffer and lets no exception leave deserialize, whatever the
\* byte_length token is.
C28_AnnotationBranchSafe ==
    [][(last'.op = "deserialize" /\ last'.arg \in AnnotationStreams)
       => /\ last'.outcome = "returned"
          /\ ParsedText[last'.arg].written <= BufferSize]_vars

\* C29: deserialize terminates on every finite text.  Every turn of the
\* outer loop that enters the body has taken at least one token from the
\* stream, the point loop of a polygon record makes at most as many turns as
\* the record declares, the loop ends once the stream is exhausted or has
\* failed, and the turns made are at most the tokens of the text, one turn
\* for the failing condition, and the declared point counts.
C29_DeserializeTerminates ==
    /\ [][LoopTurn(LoopThread) =>
            /\ loc'[LoopThread].msg # <<"exit">>
                  => loc'[LoopThread].st.pos > loc[LoopThread].st.pos
            /\ (loc[LoopThread].st.eof \/ loc[LoopThread].st.fail)
                  => pc'[LoopThread] = "idle"]_vars
    /\ [](pc[LoopThread] = "loop"
            => /\ loc[LoopThread].it < Len(DeserializeTurns[loc[LoopThread].arg])
               /\ loc[LoopThread].it < MaxTurns)
    /\ [](/\ loc[LoopThread].end <= loc[LoopThread].ptr
          /\ loc[LoopThread].op = "deserialize"
                => loc[LoopThread].it + loc[LoopThread].end
                      <= TokenCount[loc[LoopThread].arg] + 1 + loc[LoopThread].ptr)
    /\ (pc[LoopThread] = "loop") ~> (pc[LoopThread] = "idle")

\* deserialize has returned from a text holding a polygon record cut short:
\* the point loop made its three turns on fewer tokens
C29_Witness ==
    /\ pc[LoopThread] = "idle"
    /\ loc[LoopThread].op = "deserialize"
    /\ loc[LoopThread].arg = Cut(SerializeShape(InPolygon), 3)
    /\ loc[LoopThread].msg = <<"exit">>
    /\ loc[LoopThread].end = 3
    /\ loc[LoopThread].it = 2


====
